---------------------------- MODULE Spec2Model ----------------------------
(***************************************************************************)
(* A model of the cursor library iterators++.h: value_iterator,            *)
(* assignable_func, func_iterator, unary_func_iterator, count_iterator,    *)
(* mapping_iterator and iterator_range, each operator translated from its  *)
(* C++ body.                                                               *)
(*                                                                         *)
(* The module holds several specifications, one per group of cursors:      *)
(*   SpecCount  counting cursors over value cursors                        *)
(*   SpecTrav   a traversal of make_count_range(g, n)                      *)
(*   SpecFunc   pull-function cursors: construction, copy, move,           *)
(*              assignment, increment, access and destruction              *)
(*   SpecMap    mapping cursors over the elements of a vector that is      *)
(*              mutated from outside                                       *)
(*   SpecAssign assignment between pull-function cursors and between       *)
(*              mapping cursors, for callables with and without native     *)
(*              assignment                                                 *)
(*   SpecRange  a traversal of make_value_range(b, e).map(f) and of         *)
(*              make_value_range(b, e).map(f).map(g)                       *)
(*   SpecSpan   make_value_range(b, e) and make_count_range(begin, n),     *)
(*              measured and traversed                                     *)
(*   SpecPos    positional operations, accesses and comparisons of         *)
(*              mapping cursors over random access inner cursors           *)
(*   SpecValue  a value cursor over each kind of element type: its tier,   *)
(*              the operations the tier admits, and its arithmetic         *)
(*   SpecUnary  mutate-function cursors                                    *)
(*   SpecSelf   cursors assigned to themselves                             *)
(*   SpecPost   the postfix forms of ++ and -- on every cursor variant     *)
(*   SpecReuse  an lvalue range whose member functions are called twice    *)
(*   SpecTemp   operator* on temporary and on named cursors                *)
(* Every specification uses the variables of its own group and pins the    *)
(* others to their idle value.                                             *)
(***************************************************************************)
EXTENDS Integers, Sequences, FiniteSets, TLC

VARIABLES
    cur,      \* SpecCount: slot -> count_iterator<value_iterator<unsigned>>
    origin,   \* SpecCount: slot -> the (p0, c0) the slot's cursor descends from
    g,        \* SpecTrav: the cursor handed to make_count_range; SpecRange:
              \* the range before any map
    n,        \* SpecTrav: the count handed to make_count_range; SpecRange: range.distance()
    range,    \* SpecTrav: the iterator_range make_count_range returned
    first,    \* SpecTrav: the traversal's running cursor, a copy of range.begin()
    last,     \* SpecTrav: the traversal's copy of range.end()
    visited,  \* SpecTrav: the elements the traversal has dereferenced, in order
    acc,      \* SpecTrav: the running fold (addition from 0)
    pc,       \* SpecTrav: "start", "ranged", "loop" or "done"
    ftype,    \* SpecFunc: the callable type F: its kind, and whether F is copy assignable
    fi,       \* SpecFunc: slot -> func_iterator<F, int>
    life,     \* SpecFunc: slot -> "unborn", "alive", "moved" (alive, moved from) or "dead"
    since,    \* SpecFunc: the increments made on each slot since one was copied to the other
    obs,      \* SpecFunc: what the last dereference, arrow access or comparison returned
    vec,      \* SpecMap: the elements of the std::vector<int> the inner cursors point into
    mtype,    \* SpecMap: the transform type F: its kind, and whether F is copy assignable
    mp,       \* SpecMap: slot -> mapping_iterator<std::vector<int>::iterator, F>
    mobs,     \* SpecMap: what the last dereference or arrow access returned
    bare,     \* SpecPos: slot -> a bare inner cursor that received the same positional operations
    vtype,    \* SpecValue: the element type T of the value cursor
    overflow, \* SpecValue: what the build makes of a signed overflow: "wrap" or "trap"
    vc,       \* SpecValue: the value_iterator<T>
    ref,      \* SpecValue: a reference T value given the operators the cursor was given
    trail,    \* SpecValue: the last two steps of ++ and --, each with the value before it
    vobs,     \* SpecValue: what the last operation returned, or that it ended the program
    post,     \* SpecPost: a cursor, the cursor before the last step, and what the step returned
    tmp       \* SpecTemp: a temporary cursor, its storage and what its dereference returned

countVars == <<cur, origin>>

travVars == <<g, n, range, first, last, visited, acc, pc>>

funcVars == <<ftype, fi, life, since, obs>>

mapVars == <<vec, mtype, mp, mobs>>

posVars == <<bare>>

valVars == <<vtype, overflow, vc, ref, trail, vobs>>

auxVars == <<post, tmp>>

vars == <<countVars, travVars, funcVars, mapVars, posVars, valVars, auxVars>>

\* what the actions of one specification leave alone
notCount == <<travVars, funcVars, mapVars, posVars, valVars, auxVars>>

notTrav == <<countVars, funcVars, mapVars, posVars, valVars, auxVars>>

notFunc == <<countVars, travVars, mapVars, posVars, valVars, auxVars>>

notMap == <<countVars, travVars, funcVars, posVars, valVars, auxVars>>

notPos == <<countVars, travVars, funcVars, valVars, auxVars>>

notVal == <<countVars, travVars, funcVars, mapVars, posVars, auxVars>>

notAux == <<countVars, travVars, funcVars, mapVars, posVars, valVars>>

---------------------------------------------------------------------------
(* Bounds of the model *)

\* width in bits of the unsigned element type held by a value cursor
WBits == 3
\* the counting cursors explored keep |count| within this bound
MaxCount == 3
\* the largest count handed to make_count_range
MaxN == 10
\* the largest number of increments made on a cursor before it is put in a range
MaxPre == 2
\* the largest number of increments made on a pull-function cursor and its copies
MaxIncs == 3
\* the number of elements of the vector the mapping cursors run over
VecLen == 3

---------------------------------------------------------------------------
(* Fixed-width integers *)

RECURSIVE Pow2(_)
Pow2(k) == IF k = 0 THEN 1 ELSE 2 * Pow2(k - 1)

Modulus == Pow2(WBits)

\* conversion of an int result to the unsigned element type
Wrap(x) == x % Modulus

\* values of the unsigned element type T
TValues == 0 .. (Modulus - 1)

\* values of make_signed_t<T>, the difference type of value_iterator<T>
DiffValues == (0 - Modulus \div 2) .. (Modulus \div 2 - 1)

---------------------------------------------------------------------------
(* Integral element types *)

\* an integral type: signed or unsigned, of bits bits; narrow when its rank is
\* below int's, so that its operands are promoted to int before arithmetic
IntegralType(sg, b, nr) == [signed |-> sg, bits |-> b, narrow |-> nr]

\* unsigned int
UnsignedT == IntegralType(FALSE, WBits, FALSE)

\* width in bits of int, the least the language allows: wide enough for every
\* value the ranges explored hold
IntBits == 16

IntT == IntegralType(TRUE, IntBits, FALSE)

Half(T) == Pow2(T.bits - 1)

MinOf(T) == IF T.signed THEN 0 - Half(T) ELSE 0

MaxOf(T) == IF T.signed THEN Half(T) - 1 ELSE Pow2(T.bits) - 1

Fits(T, x) == MinOf(T) <= x /\ x <= MaxOf(T)

\* conversion of x to T: the value of T congruent to x modulo 2^bits
Conv(T, x) ==
    IF T.signed
    THEN ((x + Half(T)) % Pow2(T.bits)) - Half(T)
    ELSE x % Pow2(T.bits)

\* std::make_signed_t<T>, the difference type of value_iterator<T>
make_signed_t(T) == [T EXCEPT !.signed = TRUE]

\* the mathematical result x of an operation on T has no defined value: signed
\* arithmetic at the rank of int or above, outside the range of the type.
\* Unsigned arithmetic is modular, and narrow types compute in int and are
\* converted back.
Overflows(T, x) == T.signed /\ ~T.narrow /\ ~Fits(T, x)

---------------------------------------------------------------------------
(* value_iterator_traits<T>, and the interface the cursors expose by it *)

\* an element type: whether std::is_integral and std::is_pointer hold of it,
\* what --x is for an lvalue x of it ("none": ill-formed, "void": well-formed
\* of type void, "value": well-formed of another type), the arithmetic of the
\* value it holds, and whether the model runs cursors over it
ElemType(nm, ig, ptr, dc, ar, run) ==
    [name |-> nm, integral |-> ig, pointer |-> ptr, dec |-> dc, arith |-> ar, runs |-> run]

\* the element types of main, and void_down_counter: up_counter with
\* void operator--() { --v; }
ElemTypes ==
    { ElemType("unsigned int", TRUE, FALSE, "value", UnsignedT, TRUE),
      ElemType("int", TRUE, FALSE, "value", IntegralType(TRUE, WBits, FALSE), TRUE),
      ElemType("unsigned char", TRUE, FALSE, "value", IntegralType(FALSE, WBits, TRUE), TRUE),
      ElemType("signed char", TRUE, FALSE, "value", IntegralType(TRUE, WBits, TRUE), TRUE),
      ElemType("int*", FALSE, TRUE, "value", UnsignedT, FALSE),
      ElemType("up_down_counter", FALSE, FALSE, "value", IntegralType(TRUE, WBits, FALSE), TRUE),
      ElemType("up_counter", FALSE, FALSE, "none", IntegralType(TRUE, WBits, FALSE), TRUE),
      ElemType("void_down_counter", FALSE, FALSE, "void", IntegralType(TRUE, WBits, FALSE), TRUE) }

\* decltype(__satisfies_rand_access(nullptr))::value
satisfies_rand_access(T) == T.integral \/ T.pointer

\* decltype(__has_prefix_dec(nullptr))::value: the overload returning
\* true_type takes part when decltype(--*(_T*)nullptr) names a type that is
\* not void
has_prefix_dec(T) == T.dec # "none" /\ T.dec # "void"

\* value_iterator_traits<T>::iterator_category
iterator_category(T) ==
    IF satisfies_rand_access(T) THEN "random_access"
    ELSE IF has_prefix_dec(T) THEN "bidirectional"
    ELSE "forward"

\* the cursor variants, and the iterator_category of each over a
\* value_iterator<T>: count_iterator and mapping_iterator take theirs from
\* std::iterator_traits<Iter>
Variants == {"value", "count", "mapping"}

CategoryOf(variant, T) == iterator_category(T)

\* static constexpr bool rand_access
rand_access(cat) == cat = "random_access"

\* a flag that would be set for bidirectional_iterator_tag only
bidirectionalBad(cat) == cat = "bidirectional"

\* static constexpr bool bidirectional
bidirectional(cat) == rand_access(cat) \/ cat = "bidirectional"

\* the operations of a cursor, by name
AlwaysOps == {"inc", "postinc", "deref", "arrow", "eq", "ne"}

BidirOps == {"dec", "postdec"}

RandOps == {"index", "addassign", "subassign", "plus", "minus", "diff", "lt", "le", "gt", "ge"}

\* the operation takes part in overload resolution for a cursor of the
\* category: the enable_if condition of its declaration
Accepts(cat, op) ==
    CASE op \in BidirOps -> bidirectional(cat)
      [] op \in RandOps  -> rand_access(cat)
      [] OTHER           -> TRUE

---------------------------------------------------------------------------
(* value_iterator<T>, T an integral type.  Where the operation overflows a  *)
(* signed T the operators give the wrapped result.                          *)

\* value_iterator<T>(v)
ValueCtor(T, v) == [tag |-> "value", ty |-> T, data |-> v]

\* value_iterator<unsigned>(v)
value_iterator(v) == ValueCtor(UnsignedT, v)

ValueDeref(it) == it.data

ValuePreInc(it) == [it EXCEPT !.data = Conv(it.ty, @ + 1)]

\* a decrement that would stop at the least value of T
ValuePreDecBad(it) == [it EXCEPT !.data = IF @ = MinOf(it.ty) THEN @ ELSE @ - 1]

ValuePreDec(it) == [it EXCEPT !.data = Conv(it.ty, @ - 1)]

\* a += that would step once more
ValueAddAssignBad(it, d) == [it EXCEPT !.data = Conv(it.ty, @ + d + 1)]

ValueAddAssign(it, d) == [it EXCEPT !.data = Conv(it.ty, @ + d)]

ValueSubAssign(it, d) == [it EXCEPT !.data = Conv(it.ty, @ - d)]

\* operator[]: T cpy(data); cpy += d; return cpy;
ValueIndex(it, d) == Conv(it.ty, it.data + d)

\* a distance that would not be converted to difference_type
ValueDiffBad(a, b) == a.data - b.data

\* operator-(a, b): a.data - b.data converted to difference_type
ValueDiff(a, b) == Conv(make_signed_t(a.ty), a.data - b.data)

ValueEq(a, b) == a.data = b.data

\* the comparison and distance operators, by name
CmpOps == {"eq", "ne", "lt", "le", "gt", "ge", "diff"}

\* an order that would take equal values for ascending
ValueCompareBad(op, a, b) ==
    CASE op = "eq"   -> ValueEq(a, b)
      [] op = "ne"   -> ~(a.data = b.data)
      [] op = "lt"   -> a.data <= b.data
      [] op = "le"   -> a.data <= b.data
      [] op = "gt"   -> a.data >= b.data
      [] op = "ge"   -> a.data >= b.data
      [] op = "diff" -> ValueDiff(a, b)


\* a op b on two value cursors
ValueCompare(op, a, b) ==
    CASE op = "eq"   -> ValueEq(a, b)
      [] op = "ne"   -> ~(a.data = b.data)
      [] op = "lt"   -> a.data < b.data
      [] op = "le"   -> a.data <= b.data
      [] op = "gt"   -> a.data > b.data
      [] op = "ge"   -> a.data >= b.data
      [] op = "diff" -> ValueDiff(a, b)

---------------------------------------------------------------------------
(* The callables used with the function-cell cursors (README.md, main) *)

\* the value returned by the stateless callable [] { return zero_int{ 13579 }; }
ConstOut == 13579

\* "counter"      [n = 0]() mutable { return ++n; }
\* "squares"      [n = 0]() mutable { ++n; return n * n; }
\* "postcounter"  [n = 0]() mutable { return n++; }
\* "const"        [] { return zero_int{ 13579 }; }
FuncKinds == {"counter", "squares", "postcounter", "const"}

\* a freshly written callable of the kind: its captured n is 0.  calls counts
\* the invocations made on this callable and on those it was copied from.
Lambda(kind) == [kind |-> kind, n |-> 0, calls |-> 0]

\* the value an invocation of f returns
CallResult(f) ==
    CASE f.kind = "counter"     -> f.n + 1
      [] f.kind = "squares"     -> (f.n + 1) * (f.n + 1)
      [] f.kind = "postcounter" -> f.n
      [] f.kind = "const"       -> ConstOut

\* the callable after an invocation
CallNext(f) ==
    [f EXCEPT !.n = IF f.kind = "const" THEN @ ELSE @ + 1, !.calls = @ + 1]

---------------------------------------------------------------------------
(* assignable_func<F>: the member func and the number of F objects alive in *)
(* its storage                                                              *)

AFCtor(f) == [func |-> f, live |-> 1]

AFCopyCtor(other) == [func |-> other.func, live |-> 1]

AFMoveCtor(other) == [func |-> other.func, live |-> 1]

AFDtor(self) == [self EXCEPT !.live = @ - 1]

\* assign(const F &f) for a copy assignable F:  func = f;
AFAssignNative(self, f) == [self EXCEPT !.func = f]

AFAssignRebuildBad(self, f) == [self EXCEPT !.func = f, !.live = @ + 1]

\* assign(const F &f) otherwise:  func.~F(); new (&func) F(f);
AFAssignRebuild(self, f) ==
    LET destroyed == [self EXCEPT !.live = @ - 1]
    IN  [destroyed EXCEPT !.func = f, !.live = @ + 1]

\* overload resolution between the two assign(const F&) templates
AFAssign(self, f, copyAssignable) ==
    IF copyAssignable THEN AFAssignNative(self, f) ELSE AFAssignRebuild(self, f)

AFCopyAssign(self, other, copyAssignable) == AFAssign(self, other.func, copyAssignable)

\* operator=(const assignable_func &&other): std::move(other.func) is a const F&&,
\* which only assign(const F&) accepts
AFMoveAssign(self, other, copyAssignable) == AFAssign(self, other.func, copyAssignable)

\* operator(): the wrapper after the call, and the value the call returns
AFCall(self) == [self EXCEPT !.func = CallNext(@)]

AFCallResult(self) == CallResult(self.func)

---------------------------------------------------------------------------
(* func_iterator<F, V>: the cache buffer _value (its content and the number *)
(* of constructions and destructions of a V in it) and the member func.     *)
(* incs counts the increments made on this cursor and on those it was       *)
(* copied from.                                                             *)

RawCache == [ctor |-> 0, dtor |-> 0]

\* new (_value) V(...)
CacheConstruct(c) == [c EXCEPT !.ctor = @ + 1]

\* value().~V()
CacheDestroy(c) == [c EXCEPT !.dtor = @ + 1]

FuncCtorBad(f) ==
    [tag   |-> "func",
     func  |-> AFCtor(f),
     value |-> 0,
     cache |-> CacheConstruct(RawCache),
     incs  |-> 0]

\* func_iterator(const F &f) : func(f) { new (_value) V(func()); }
FuncCtor(f) ==
    LET af == AFCtor(f)
    IN  [tag   |-> "func",
         func  |-> AFCall(af),
         value |-> AFCallResult(af),
         cache |-> CacheConstruct(RawCache),
         incs  |-> 0]

FuncDtorBad(it) == [it EXCEPT !.func = AFDtor(@)]

\* ~func_iterator() { value().~V(); }  and then the member func is destroyed
FuncDtor(it) == [it EXCEPT !.cache = CacheDestroy(@), !.func = AFDtor(@)]

FuncCopyCtorBad(other) ==
    [tag   |-> "func",
     func  |-> AFCall(AFCopyCtor(other.func)),
     value |-> AFCallResult(other.func),
     cache |-> CacheConstruct(RawCache),
     incs  |-> other.incs]

\* func(other.func) { new (_value) V(other.value()); }
FuncCopyCtor(other) ==
    [tag   |-> "func",
     func  |-> AFCopyCtor(other.func),
     value |-> other.value,
     cache |-> CacheConstruct(RawCache),
     incs  |-> other.incs]

\* V and F are an int and a closure over an int: moving them copies them
FuncMoveCtor(other) ==
    [tag   |-> "func",
     func  |-> AFMoveCtor(other.func),
     value |-> other.value,
     cache |-> CacheConstruct(RawCache),
     incs  |-> other.incs]

\* value() = other.value(); func = other.func;
FuncCopyAssign(self, other, copyAssignable) ==
    [self EXCEPT !.value = other.value,
                 !.func  = AFCopyAssign(@, other.func, copyAssignable),
                 !.incs  = other.incs]

FuncMoveAssign(self, other, copyAssignable) ==
    [self EXCEPT !.value = other.value,
                 !.func  = AFMoveAssign(@, other.func, copyAssignable),
                 !.incs  = other.incs]

FuncDeref(it) == it.value

FuncArrow(it) == it.value

FuncPreIncBad(it) == [it EXCEPT !.func = AFCall(@), !.incs = @ + 1]

\* value() = func();
FuncPreInc(it) ==
    [it EXCEPT !.value = AFCallResult(it.func),
               !.func  = AFCall(@),
               !.incs  = @ + 1]

FuncEq(a, b) == a.value = b.value

FuncNe(a, b) == a.value # b.value

---------------------------------------------------------------------------
(* unary_func_iterator<F, V>: the member value and the member func.  init   *)
(* is the value the constructor arguments built, incs the increments made   *)
(* on this cursor and on those it was copied from.                          *)

\* "inc"      [](int &v) { ++v; }
\* "noop"     [](zero_int &v) {}
\* "byvalue"  [](int n) { n++; }
UnaryKinds == {"inc", "noop", "byvalue"}

\* the owned value after the call f(value)
Mutate(f, v) == IF f.kind = "inc" THEN v + 1 ELSE v

\* the callable after a call: it captures nothing
Invoked(f) == [f EXCEPT !.calls = @ + 1]

unary_func_iteratorBad(f, v) ==
    [tag |-> "unary", value |-> Mutate(f, v), func |-> AFCtor(Invoked(f)),
     incs |-> 0, init |-> v]

\* unary_func_iterator(const F &f, Args &&...args) : value(args...), func(f) {}
unary_func_iterator(f, v) ==
    [tag |-> "unary", value |-> v, func |-> AFCtor(f), incs |-> 0, init |-> v]

\* value(other.value), func(other.func)
UnaryCopyCtor(other) == [other EXCEPT !.func = AFCopyCtor(@)]

\* operator*() &  { return value; }
UnaryDeref(it) == it.value

\* operator++()  { func(value); return *this; }
UnaryPreInc(it) ==
    [it EXCEPT !.value = Mutate(it.func.func, @),
               !.func  = [@ EXCEPT !.func = Invoked(@)],
               !.incs  = @ + 1]

\* operator==(a, b)  { return a.value == b.value; }
UnaryEq(a, b) == a.value = b.value

---------------------------------------------------------------------------
(* std::vector<int>::iterator as the inner cursor of a mapping cursor: a     *)
(* position 1 .. VecLen + 1 in the vector, VecLen + 1 being end()            *)

vector_iterator(p) == [tag |-> "vec", pos |-> p]

VecDeref(it, c) == c[it.pos]

VecPreInc(it) == [it EXCEPT !.pos = @ + 1]

VecPreDec(it) == [it EXCEPT !.pos = @ - 1]

VecAddAssign(it, d) == [it EXCEPT !.pos = @ + d]

VecSubAssign(it, d) == [it EXCEPT !.pos = @ - d]

VecIndex(it, d, c) == c[it.pos + d]

\* a op b on two iterators into the same vector
VecCompare(op, a, b) ==
    CASE op = "eq"   -> a.pos = b.pos
      [] op = "ne"   -> a.pos # b.pos
      [] op = "lt"   -> a.pos < b.pos
      [] op = "le"   -> a.pos <= b.pos
      [] op = "gt"   -> a.pos > b.pos
      [] op = "ge"   -> a.pos >= b.pos
      [] op = "diff" -> a.pos - b.pos

---------------------------------------------------------------------------
(* The operations count_iterator<Iter> and mapping_iterator<Iter, F> use of  *)
(* their stored iterator, by the type of the stored iterator                 *)

RECURSIVE MapCopyCtor(_), MapDeref(_, _), MapPreInc(_), MapPreDec(_)
RECURSIVE MapAddAssign(_, _), MapSubAssign(_, _), MapIndex(_, _, _), MapCompare(_, _, _)
RECURSIVE CountCopyCtor(_), CountDeref(_), CountPreInc(_), CountPreDec(_)
RECURSIVE CountAddAssign(_, _), CountSubAssign(_, _), CountCompare(_, _, _)

IterCopyCtor(it) ==
    CASE it.tag = "func"  -> FuncCopyCtor(it)
      [] it.tag = "unary" -> UnaryCopyCtor(it)
      [] it.tag = "map"   -> MapCopyCtor(it)
      [] it.tag = "count" -> CountCopyCtor(it)
      [] OTHER            -> it

IterDeref(it) ==
    CASE it.tag = "func"  -> FuncDeref(it)
      [] it.tag = "unary" -> UnaryDeref(it)
      [] it.tag = "count" -> CountDeref(it)
      [] OTHER            -> ValueDeref(it)

\* a dereference that would pass over the transform of a stored mapping cursor
IterDerefInBad(it, c) ==
    CASE it.tag = "vec" -> VecDeref(it, c)
      [] it.tag = "map" -> MapDeref([it EXCEPT !.iter = IF @.tag = "map" THEN @.iter ELSE @], c)
      [] OTHER          -> IterDeref(it)

\* *iter, c being the contents of the vector a vector iterator points into
IterDerefIn(it, c) ==
    CASE it.tag = "vec" -> VecDeref(it, c)
      [] it.tag = "map" -> MapDeref(it, c)
      [] OTHER          -> IterDeref(it)

IterPreInc(it) ==
    CASE it.tag = "func"  -> FuncPreInc(it)
      [] it.tag = "unary" -> UnaryPreInc(it)
      [] it.tag = "vec"   -> VecPreInc(it)
      [] it.tag = "map"   -> MapPreInc(it)
      [] it.tag = "count" -> CountPreInc(it)
      [] OTHER            -> ValuePreInc(it)

IterPreDec(it) ==
    CASE it.tag = "vec"   -> VecPreDec(it)
      [] it.tag = "map"   -> MapPreDec(it)
      [] it.tag = "count" -> CountPreDec(it)
      [] OTHER            -> ValuePreDec(it)

IterAddAssign(it, d) ==
    CASE it.tag = "vec"   -> VecAddAssign(it, d)
      [] it.tag = "map"   -> MapAddAssign(it, d)
      [] it.tag = "count" -> CountAddAssign(it, d)
      [] OTHER            -> ValueAddAssign(it, d)

IterSubAssign(it, d) ==
    CASE it.tag = "vec"   -> VecSubAssign(it, d)
      [] it.tag = "map"   -> MapSubAssign(it, d)
      [] it.tag = "count" -> CountSubAssign(it, d)
      [] OTHER            -> ValueSubAssign(it, d)

\* iter[d]
IterIndex(it, d, c) ==
    CASE it.tag = "vec" -> VecIndex(it, d, c)
      [] it.tag = "map" -> MapIndex(it, d, c)
      [] OTHER          -> ValueIndex(it, d)

\* a op b on two stored iterators
IterCompare(op, a, b) ==
    CASE a.tag = "vec"   -> VecCompare(op, a, b)
      [] a.tag = "map"   -> MapCompare(op, a, b)
      [] a.tag = "count" -> CountCompare(op, a, b)
      [] a.tag = "func"  -> (IF op = "eq" THEN FuncEq(a, b) ELSE FuncNe(a, b))
      [] OTHER           -> ValueCompare(op, a, b)

---------------------------------------------------------------------------
(* count_iterator<Iter> *)

count_iterator(it, c) == [tag |-> "count", iter |-> IterCopyCtor(it), count |-> c]

CountCopyCtor(other) ==
    [tag |-> "count", iter |-> IterCopyCtor(other.iter), count |-> other.count]

CountDeref(c) == IterDeref(c.iter)

\* ++count; ++iter;
CountPreInc(c) == [tag |-> "count", iter |-> IterPreInc(c.iter), count |-> c.count + 1]

\* --count; --iter;
CountPreDecBad(c) == [tag |-> "count", iter |-> IterPreDec(c.iter), count |-> c.count + 1]

CountPreDec(c) == [tag |-> "count", iter |-> IterPreDec(c.iter), count |-> c.count - 1]

\* count += d; iter += d;
CountAddAssign(c, d) ==
    [tag |-> "count", iter |-> IterAddAssign(c.iter, d), count |-> c.count + d]

\* count -= d; iter -= d;
CountSubAssign(c, d) ==
    [tag |-> "count", iter |-> IterSubAssign(c.iter, d), count |-> c.count - d]

CountEqBad(a, b) == a.count = b.count /\ a.iter = b.iter

CountEq(a, b) == a.count = b.count

CountNeBad(a, b) == a.iter # b.iter

CountNe(a, b) == a.count # b.count

\* relational operators that would compare the stored iterators
CountCompareBad(op, a, b) ==
    CASE op = "eq"   -> CountEq(a, b)
      [] op = "ne"   -> CountNe(a, b)
      [] op = "diff" -> a.count - b.count
      [] OTHER       -> IterCompare(op, a.iter, b.iter)

\* a op b on two counting cursors: the counts are compared; the distance
\* a.count - b.count is returned as the difference_type of the stored iterator
CountCompare(op, a, b) ==
    CASE op = "eq"   -> CountEq(a, b)
      [] op = "ne"   -> CountNe(a, b)
      [] op = "lt"   -> a.count < b.count
      [] op = "le"   -> a.count <= b.count
      [] op = "gt"   -> a.count > b.count
      [] op = "ge"   -> a.count >= b.count
      [] op = "diff" -> IF a.iter.tag = "value"
                        THEN Conv(make_signed_t(a.iter.ty), a.count - b.count)
                        ELSE a.count - b.count

---------------------------------------------------------------------------
(* The transforms used with the mapping cursors *)

\* "square"       [](int v) { return v * v; }
\* "identity"     [](int v) { return v; }
\* "scale"        a callable with state k:  [k](int v) { return k * v; }
\* "twicesquare"  [](int v) { return 2 * v * v; }
\* "halve"        [](int v) { return v / 2; }
MapKinds == {"square", "identity", "scale"}

Transform(kind, k) == [kind |-> kind, k |-> k]

\* func(v)
Apply(f, v) ==
    CASE f.kind = "square"      -> v * v
      [] f.kind = "identity"    -> v
      [] f.kind = "scale"       -> f.k * v
      [] f.kind = "twicesquare" -> 2 * v * v
      [] f.kind = "halve"       -> IF v >= 0 THEN v \div 2 ELSE 0 - ((0 - v) \div 2)

---------------------------------------------------------------------------
(* mapping_iterator<Iter, F> *)

\* temp_mapped_value has no initializer: it holds no value until operator->
\* assigns it, and nothing reads it before that
Indeterminate == -1

\* mapping_iterator(Iter _iter, const F &_func)
mapping_iterator(it, f) ==
    [tag |-> "map", iter |-> IterCopyCtor(it), func |-> AFCtor(f),
     temp_mapped_value |-> Indeterminate]

\* iter(other.iter), func(other.func)
MapCopyCtor(other) ==
    [tag |-> "map", iter |-> IterCopyCtor(other.iter), func |-> AFCopyCtor(other.func),
     temp_mapped_value |-> Indeterminate]

\* iter = other.iter; func = other.func;
MapCopyAssign(self, other, copyAssignable) ==
    [self EXCEPT !.iter = other.iter,
                 !.func = AFCopyAssign(@, other.func, copyAssignable)]

\* iter = std::move(other.iter); func = std::move(other.func);
MapMoveAssign(self, other, copyAssignable) ==
    [self EXCEPT !.iter = other.iter,
                 !.func = AFMoveAssign(@, other.func, copyAssignable)]

\* a callable whose bytes were read after its destructor had run
Clobbered(f) == [f EXCEPT !.n = Indeterminate]

\* assign(const F &f) with f the member func itself, as x = x makes it.  No
\* overload compares &f with &func.  With a copy assignable F it is func = func.
\* Otherwise func.~F() ends the lifetime of the callable and new (&func) F(f)
\* copies from it afterwards: the copy reads a dead object, and what it reads is
\* either the bytes the destructor left in place or anything else.
AFAssignSelf(self, copyAssignable) ==
    IF copyAssignable
    THEN {[af |-> AFAssignNative(self, self.func), deadRead |-> FALSE]}
    ELSE LET destroyed == [self EXCEPT !.live = @ - 1]
         IN  {[af |-> [destroyed EXCEPT !.func = f, !.live = @ + 1], deadRead |-> TRUE] :
                 f \in {destroyed.func, Clobbered(destroyed.func)}}

\* func_iterator::operator=(const func_iterator &other) with &other == this:
\* value() = other.value(); func = other.func;
FuncSelfAssign(self, copyAssignable) ==
    {[it |-> [self EXCEPT !.func = o.af], deadRead |-> o.deadRead] :
        o \in AFAssignSelf(self.func, copyAssignable)}

\* mapping_iterator::operator=(const mapping_iterator &other) with &other == this:
\* iter = other.iter; func = other.func;
MapSelfAssign(self, copyAssignable) ==
    {[it |-> [self EXCEPT !.func = o.af], deadRead |-> o.deadRead] :
        o \in AFAssignSelf(self.func, copyAssignable)}

\* the value a dereference would return if it reused the scratch slot
MapDerefBad(m, c) ==
    IF m.temp_mapped_value # Indeterminate
    THEN Apply(m.func.func, m.temp_mapped_value)
    ELSE Apply(m.func.func, VecDeref(m.iter, c))

\* operator*(): return func(*iter);
MapDeref(m, c) == Apply(m.func.func, IterDerefIn(m.iter, c))

\* an arrow access that would step the inner cursor after reading it
MapArrowBad(m, c) ==
    [m EXCEPT !.temp_mapped_value = IterDerefIn(m.iter, c), !.iter = IterPreInc(@)]

\* operator->(): temp_mapped_value = *iter; return std::addressof(temp_mapped_value);
\* the cursor after the access, and the value read through the returned address
MapArrow(m, c) == [m EXCEPT !.temp_mapped_value = IterDerefIn(m.iter, c)]

MapArrowValue(m, c) == MapArrow(m, c).temp_mapped_value

\* ++iter;
MapPreInc(m) == [m EXCEPT !.iter = IterPreInc(@)]

\* --iter;
MapPreDec(m) == [m EXCEPT !.iter = IterPreDec(@)]

\* operator[]: return func(iter[d]);
MapIndex(m, d, c) == Apply(m.func.func, IterIndex(m.iter, d, c))

\* a += d that would also re-seat the transform
MapAddAssignBad(m, d) ==
    [m EXCEPT !.iter = IterAddAssign(@, d), !.func = AFCtor(Transform(m.func.func.kind, 0))]

\* iter += d;
MapAddAssign(m, d) == [m EXCEPT !.iter = IterAddAssign(@, d)]

\* iter -= d;
MapSubAssign(m, d) == [m EXCEPT !.iter = IterSubAssign(@, d)]

\* comparisons that would also compare the stored transforms
MapCompareBad(op, a, b) ==
    IF op = "eq"
    THEN IterCompare(op, a.iter, b.iter) /\ a.func = b.func
    ELSE IterCompare(op, a.iter, b.iter)

\* return a.iter == b.iter;  and likewise !=, <, <=, >, >= and a.iter - b.iter
MapCompare(op, a, b) == IterCompare(op, a.iter, b.iter)

---------------------------------------------------------------------------
(* operator* by value category.  Each cursor class declares operator*() &,  *)
(* operator*() && and operator*() const&.  A result is either a reference   *)
(* into the storage of the cursor or a value of its own.                    *)

\* a resolution that would ignore the && overloads
OverloadBad(cat) == "&"

\* the overload chosen for a non-const cursor expression of the category
Overload(cat) == IF cat = "rvalue" THEN "&&" ELSE "&"

\* what operator* returns, cell being the element the cursor stores:
\*   value, func, unary   V &operator*() &  { return value; }
\*                        V operator*() &&  { return std::move(value); }
\*   count                decltype(auto) operator*() &  { return *iter; }
\*                        decltype(auto) operator*() && { return *std::move(iter); }
\*                        over a value cursor, so what the value cursor returns
\*   map                  decltype(auto) operator*() &  { return func(*iter); }
\*                        decltype(auto) operator*() && { return func(*std::move(iter)); }
\*                        with a transform [](const zero_int &v) { return v; }
\*                        that returns by value
Star(variant, ov, cell) ==
    CASE variant = "map" -> [kind |-> "value", val |-> cell]
      [] ov = "&&"       -> [kind |-> "value", val |-> cell]
      [] OTHER           -> [kind |-> "ref"]

---------------------------------------------------------------------------
(* The postfix forms.  Every cursor class writes them the same way:  a copy *)
(* of *this, then the body of the prefix form, then return of the copy.     *)
(* self is the cursor after the call, ret the cursor the call returns.      *)

\* a postfix increment that would copy after advancing
PostIncBad(it) == [self |-> IterPreInc(it), ret |-> IterCopyCtor(IterPreInc(it))]

\* operator++(int)  { T cpy(*this); ++...; return cpy; }
PostInc(it) == [self |-> IterPreInc(it), ret |-> IterCopyCtor(it)]

\* operator--(int)  { T cpy(*this); --...; return cpy; }
PostDec(it) == [self |-> IterPreDec(it), ret |-> IterCopyCtor(it)]

RECURSIVE Decrementable(_)
\* the cursor type exposes -- : value cursors of an integral type and vector
\* iterators do, the function-cell cursors are forward only, and a counting
\* or mapping cursor does if its stored iterator does
Decrementable(it) ==
    CASE it.tag \in {"func", "unary"} -> FALSE
      [] it.tag \in {"count", "map"}  -> Decrementable(it.iter)
      [] OTHER                         -> TRUE

---------------------------------------------------------------------------
(* iterator_range<IterBegin, IterEnd> *)

iterator_range(b, e) == [_begin |-> b, _end |-> e]

\* begin() const& and end() const& return copies of the stored cursors
RangeBegin(r) == IterCopyCtor(r._begin)

RangeEnd(r) == IterCopyCtor(r._end)

\* { count_iterator<Iter>(begin, 0), count_iterator<Iter>(begin, count) }
make_count_range(begin, count) ==
    iterator_range(count_iterator(begin, 0), count_iterator(begin, count))

\* a value range that would hold one element more
make_value_rangeBad(T, begin, end) ==
    iterator_range(ValueCtor(T, begin), ValueCtor(T, Conv(T, end + 1)))

\* { value_iterator<T>(begin), value_iterator<T>(end) }
make_value_range(T, begin, end) == iterator_range(ValueCtor(T, begin), ValueCtor(T, end))

\* a map that would wrap the begin cursor twice
RangeMapBad(r, f) ==
    iterator_range(mapping_iterator(r._begin, f), mapping_iterator(r._begin, f))

\* map(func): return { { _begin, func }, { _end, func } };
RangeMap(r, f) ==
    iterator_range(mapping_iterator(r._begin, f), mapping_iterator(r._end, f))

\* a member function that would run the algorithm on the stored cursors
RangeUseBad(r) == [first |-> r._begin, last |-> r._end, self |-> iterator_range(r._end, r._end)]

\* a member function called on an lvalue range, as in
\*     distance() &  { return std::distance(_begin, _end); }
\* the algorithm's parameters first and last are copies of the members, and
\* no member is written: self is the range after the call
RangeUse(r) == [first |-> RangeBegin(r), last |-> RangeEnd(r), self |-> r]

\* distance(): std::distance(_begin, _end), which for random access cursors
\* returns _end - _begin
RangeDistance(r) == IterCompare("diff", r._end, r._begin)

---------------------------------------------------------------------------
(* SpecCount: two counting cursors over value cursors of the unsigned type  *)

Slots == {"a", "b"}

\* the inner positions and the initial counts a counting cursor is built with:
\* the two ends of the unsigned range, and the counts of a count range
StartPositions == {0, 1, Modulus - 1}

StartCounts == {0, 2}

InRange(c) == (0 - MaxCount) <= c /\ c <= MaxCount

IdleCount ==
    /\ cur = [s \in Slots |-> count_iterator(value_iterator(0), 0)]
    /\ origin = [s \in Slots |-> [p0 |-> 0, c0 |-> 0]]

IdleTrav ==
    /\ g = value_iterator(0)
    /\ n = 0
    /\ range = make_count_range(value_iterator(0), 0)
    /\ first = count_iterator(value_iterator(0), 0)
    /\ last = count_iterator(value_iterator(0), 0)
    /\ visited = << >>
    /\ acc = 0
    /\ pc = "idle"

\* the storage of a func_iterator no constructor has run on
RawFunc ==
    [tag   |-> "func",
     func  |-> [func |-> Lambda("const"), live |-> 0],
     value |-> 0,
     cache |-> RawCache,
     incs  |-> 0]

NoPair == [a |-> -1, b |-> -1]

NoObs == [op |-> "none", slot |-> "a", val |-> 0]

IdleFunc ==
    /\ ftype = [kind |-> "const", copyAssignable |-> TRUE]
    /\ fi = [s \in Slots |-> RawFunc]
    /\ life = [s \in Slots |-> "unborn"]
    /\ since = NoPair
    /\ obs = NoObs

\* std::vector<int> map_test = {4, 5, 6, ...}
StartVec == [i \in 1 .. VecLen |-> 3 + i]

NoMapObs == [op |-> "none", slot |-> "a", val |-> 0]

IdleMap ==
    /\ vec = StartVec
    /\ mtype = [kind |-> "identity", copyAssignable |-> TRUE]
    /\ mp = [s \in Slots |-> mapping_iterator(vector_iterator(1), Transform("identity", 0))]
    /\ mobs = NoMapObs

IdlePos == bare = [s \in Slots |-> vector_iterator(1)]

NoValObs == [op |-> "none", i |-> 0, j |-> 0, val |-> 0, trapped |-> FALSE]

IdleVal ==
    /\ vtype = ElemType("idle", FALSE, FALSE, "none", UnsignedT, FALSE)
    /\ overflow = "wrap"
    /\ vc = value_iterator(0)
    /\ ref = 0
    /\ trail = << >>
    /\ vobs = NoValObs

NoPost == [op |-> "none"]

NoTmp == [phase |-> "none"]

IdleAux ==
    /\ post = NoPost
    /\ tmp = NoTmp

InitCount ==
    IdleCount /\ IdleTrav /\ IdleFunc /\ IdleMap /\ IdlePos /\ IdleVal /\ IdleAux

\* count_iterator(const Iter &_iter, count_t _count)
CountConstruct(s, p, c) ==
    /\ cur' = [cur EXCEPT ![s] = count_iterator(value_iterator(p), c)]
    /\ origin' = [origin EXCEPT ![s] = [p0 |-> p, c0 |-> c]]
    /\ UNCHANGED notCount

\* count_iterator(const count_iterator &other)
CountCopyConstruct(s, t) ==
    /\ s # t
    /\ cur' = [cur EXCEPT ![s] = CountCopyCtor(cur[t])]
    /\ origin' = [origin EXCEPT ![s] = origin[t]]
    /\ UNCHANGED notCount

\* operator=(const count_iterator &other): iter = other.iter; count = other.count;
CountCopyAssign(s, t) ==
    /\ cur' = [cur EXCEPT ![s] = [@ EXCEPT !.iter = cur[t].iter, !.count = cur[t].count]]
    /\ origin' = [origin EXCEPT ![s] = origin[t]]
    /\ UNCHANGED notCount

\* operator=(count_iterator &&other): iter = std::move(other.iter); count = other.count;
CountMoveAssign(s, t) ==
    /\ s # t
    /\ cur' = [cur EXCEPT ![s] = [@ EXCEPT !.iter = cur[t].iter, !.count = cur[t].count]]
    /\ origin' = [origin EXCEPT ![s] = origin[t]]
    /\ UNCHANGED notCount

\* operator++()
CountIncrement(s) ==
    /\ InRange(cur[s].count + 1)
    /\ cur' = [cur EXCEPT ![s] = CountPreInc(cur[s])]
    /\ UNCHANGED <<origin, notCount>>

\* operator++(int): count_iterator cpy(*this); ++*this; return cpy;
\* the returned copy is kept in slot t
CountPostIncrement(s, t) ==
    /\ s # t
    /\ InRange(cur[s].count + 1)
    /\ cur' = [cur EXCEPT ![t] = CountCopyCtor(cur[s]), ![s] = CountPreInc(cur[s])]
    /\ origin' = [origin EXCEPT ![t] = origin[s]]
    /\ UNCHANGED notCount

\* operator--()
CountDecrement(s) ==
    /\ InRange(cur[s].count - 1)
    /\ cur' = [cur EXCEPT ![s] = CountPreDec(cur[s])]
    /\ UNCHANGED <<origin, notCount>>

\* operator--(int): count_iterator cpy(*this); --*this; return cpy;
CountPostDecrement(s, t) ==
    /\ s # t
    /\ InRange(cur[s].count - 1)
    /\ cur' = [cur EXCEPT ![t] = CountCopyCtor(cur[s]), ![s] = CountPreDec(cur[s])]
    /\ origin' = [origin EXCEPT ![t] = origin[s]]
    /\ UNCHANGED notCount

\* operator+=(difference_type d)
CountAdd(s, d) ==
    /\ InRange(cur[s].count + d)
    /\ cur' = [cur EXCEPT ![s] = CountAddAssign(cur[s], d)]
    /\ UNCHANGED <<origin, notCount>>

\* operator-=(difference_type d)
CountSub(s, d) ==
    /\ InRange(cur[s].count - d)
    /\ cur' = [cur EXCEPT ![s] = CountSubAssign(cur[s], d)]
    /\ UNCHANGED <<origin, notCount>>

NextCount ==
    \/ \E s \in Slots, p \in StartPositions, c \in StartCounts : CountConstruct(s, p, c)
    \/ \E s \in Slots, t \in Slots : CountCopyConstruct(s, t)
    \/ \E s \in Slots, t \in Slots : CountCopyAssign(s, t)
    \/ \E s \in Slots, t \in Slots : CountMoveAssign(s, t)
    \/ \E s \in Slots : CountIncrement(s)
    \/ \E s \in Slots, t \in Slots : CountPostIncrement(s, t)
    \/ \E s \in Slots : CountDecrement(s)
    \/ \E s \in Slots, t \in Slots : CountPostDecrement(s, t)
    \/ \E s \in Slots, d \in DiffValues : CountAdd(s, d)
    \/ \E s \in Slots, d \in DiffValues : CountSub(s, d)

SpecCount == InitCount /\ [][NextCount]_vars

\* the inner cursor's displacement from p0, in the arithmetic of its type
Displacement(s) == Wrap(cur[s].iter.data - origin[s].p0)

\* C1: a counting cursor's count minus its initial count c0 equals the net
\* displacement of its inner cursor from the initial position p0, after any
\* sequence of increments, decrements, offsets, copies and assignments.
CountLockstep ==
    \A s \in Slots : Wrap(cur[s].count - origin[s].c0) = Displacement(s)

\* a cursor that has been stepped back below its initial count and whose
\* inner value has wrapped around the unsigned range
CountLockstepWitness ==
    /\ origin["a"].p0 = 0
    /\ cur["a"].count < origin["a"].c0
    /\ cur["a"].iter.data = Modulus - 2
    /\ cur["b"].count > origin["b"].c0

\* C2: equality and inequality of two counting cursors depend only on the
\* counts: equal counts compare equal whatever the inner cursors are, different
\* counts compare unequal even over identical inner cursors.
CountEqualityByCount ==
    \A s \in Slots, t \in Slots :
        /\ cur[s].count = cur[t].count => CountEq(cur[s], cur[t]) /\ ~CountNe(cur[s], cur[t])
        /\ cur[s].count # cur[t].count => ~CountEq(cur[s], cur[t]) /\ CountNe(cur[s], cur[t])

\* equal counts over different inner values
CountEqualityWitness ==
    /\ cur["a"].count = cur["b"].count
    /\ cur["a"].iter.data # cur["b"].iter.data
    /\ CountEq(cur["a"], cur["b"])

\* C21: for counting cursors a and b over a random-access cursor, a - b is
\* the difference of their counts whatever their inner cursors hold, and
\* += d and -= d (through which every cursor here got its count) change the
\* count by exactly d.
CountDistanceByCounts ==
    \A s \in Slots, t \in Slots :
        CountCompare("diff", cur[s], cur[t]) = cur[s].count - cur[t].count

\* the positive offsets of the inner cursor's difference type
PositiveOffsets == 1 .. (Modulus \div 2 - 1)

\* C22: the order of counting cursors is that of their counts: a cursor that
\* is another stepped back by k > 0 is below it, one stepped on by k is above
\* it, also below a count of zero and where the unsigned inner value wrapped.
CountOrderBySteps ==
    \A s \in Slots, t \in Slots, k \in PositiveOffsets :
        /\ cur[s] = CountSubAssign(cur[t], k) =>
              /\ CountCompare("lt", cur[s], cur[t]) /\ CountCompare("le", cur[s], cur[t])
              /\ CountCompare("gt", cur[t], cur[s]) /\ CountCompare("ge", cur[t], cur[s])
              /\ ~CountCompare("lt", cur[t], cur[s]) /\ ~CountCompare("ge", cur[s], cur[t])
        /\ cur[s] = CountAddAssign(cur[t], k) =>
              /\ CountCompare("lt", cur[t], cur[s]) /\ CountCompare("le", cur[t], cur[s])
              /\ CountCompare("gt", cur[s], cur[t]) /\ CountCompare("ge", cur[s], cur[t])
              /\ ~CountCompare("lt", cur[s], cur[t]) /\ ~CountCompare("ge", cur[t], cur[s])

\* std::prev of a counting cursor over the unsigned value 0: the count is
\* below zero, the inner value is the greatest, and the cursor is below the
\* one it was copied from
CountOrderWitness ==
    /\ cur["b"] = count_iterator(value_iterator(0), 0)
    /\ cur["a"] = CountPreDec(cur["b"])
    /\ cur["a"].iter.data = Modulus - 1
    /\ CountCompare("lt", cur["a"], cur["b"])

---------------------------------------------------------------------------
(* SpecTrav: make_count_range(g, n) traversed as std::accumulate and the    *)
(* range-based for loop traverse it:                                        *)
(*     for (; first != last; ++first) init = init + *first;                 *)

\* the cursors g a count range is built over: a pull-function cursor made from
\* each callable, and value cursors
StartCursors ==
    {FuncCtor(Lambda(k)) : k \in FuncKinds} \cup {value_iterator(p) : p \in StartPositions}

\* no traversal is followed beyond this many steps
StepCap == MaxN + 2

InitTrav ==
    /\ IdleCount
    /\ IdleFunc
    /\ IdleMap
    /\ IdlePos
    /\ IdleVal
    /\ IdleAux
    /\ g \in StartCursors
    /\ n = 0
    /\ range = make_count_range(value_iterator(0), 0)
    /\ first = count_iterator(value_iterator(0), 0)
    /\ last = count_iterator(value_iterator(0), 0)
    /\ visited = << >>
    /\ acc = 0
    /\ pc = "start"

\* ++g, before the range is built
TravAdvanceG ==
    /\ pc = "start"
    /\ g.tag = "func"
    /\ g.incs < MaxPre
    /\ g' = FuncPreInc(g)
    /\ UNCHANGED <<n, range, first, last, visited, acc, pc, notTrav>>

\* auto r = make_count_range(g, count)
TravMakeRange(count) ==
    /\ pc = "start"
    /\ range' = make_count_range(g, count)
    /\ n' = count
    /\ pc' = "ranged"
    /\ UNCHANGED <<g, first, last, visited, acc, notTrav>>

\* first = r.begin(), last = r.end(), init = 0
TravBegin ==
    /\ pc = "ranged"
    /\ first' = RangeBegin(range)
    /\ last' = RangeEnd(range)
    /\ acc' = 0
    /\ pc' = "loop"
    /\ UNCHANGED <<g, n, range, visited, notTrav>>

\* first != last:  init = init + *first; ++first;
TravStep ==
    /\ pc = "loop"
    /\ IterCompare("ne", first, last)
    /\ Len(visited) < StepCap
    /\ visited' = Append(visited, IterDerefIn(first, vec))
    /\ acc' = acc + IterDerefIn(first, vec)
    /\ first' = IterPreInc(first)
    /\ UNCHANGED <<g, n, range, last, pc, notTrav>>

\* first == last: the traversal returns
TravFinish ==
    /\ pc = "loop"
    /\ ~IterCompare("ne", first, last)
    /\ pc' = "done"
    /\ UNCHANGED <<g, n, range, first, last, visited, acc, notTrav>>

NextTrav ==
    \/ TravAdvanceG
    \/ \E count \in 0 .. MaxN : TravMakeRange(count)
    \/ TravBegin
    \/ TravStep
    \/ TravFinish

SpecTrav == InitTrav /\ [][NextTrav]_vars

\* C3: the begin cursor of make_count_range(inner, n) equals the end cursor
\* after exactly n increments and not after fewer, whatever the inner cursor
\* is, so a traversal ends after visiting exactly n elements.
CountRangeLength ==
    /\ pc = "loop" /\ Len(visited) < n => ~CountEq(first, last) /\ CountNe(first, last)
    /\ pc = "loop" /\ Len(visited) = n => CountEq(first, last) /\ ~CountNe(first, last)
    /\ pc \in {"loop", "done"} => Len(visited) <= n
    /\ pc = "done" => Len(visited) = n

\* a finished traversal of 3 elements over the callable whose output never changes
CountRangeLengthWitness ==
    /\ pc = "done"
    /\ g.tag = "func"
    /\ g.func.func.kind = "const"
    /\ n = 3
    /\ visited = <<ConstOut, ConstOut, ConstOut>>

\* the j-th value a fresh callable of the kind returns, j = 1, 2, ...
OutputAt(kind, j) ==
    CASE kind = "counter"     -> j
      [] kind = "squares"     -> j * j
      [] kind = "postcounter" -> j - 1
      [] kind = "const"       -> ConstOut

RECURSIVE SumSeq(_)
SumSeq(q) == IF q = << >> THEN 0 ELSE Head(q) + SumSeq(Tail(q))

\* C4: traversing make_count_range(g, n) over a pull-function cursor g visits
\* g's cached value and then the next outputs of g's callable, in order, n
\* elements in all, and leaves g as it was; over the squares callable with
\* n = 10 the fold with addition from 0 is 385.
CountRangeVisits ==
    (pc \in {"loop", "done"} /\ g.tag = "func") =>
        LET f == g.func.func
        IN  /\ \A i \in 1 .. Len(visited) : visited[i] = OutputAt(f.kind, f.calls + i - 1)
            /\ visited # << >> => visited[1] = FuncDeref(g)
            /\ acc = SumSeq(visited)
            /\ range = make_count_range(g, n)
            /\ pc = "done" => Len(visited) = n
            /\ (pc = "done" /\ f.kind = "squares" /\ g.incs = 0 /\ n = 10) => acc = 385

\* the ten squares 1, 4, ..., 100 have been visited and folded
CountRangeVisitsWitness ==
    /\ pc = "done"
    /\ g.tag = "func"
    /\ g.func.func.kind = "squares"
    /\ g.incs = 0
    /\ n = 10
    /\ visited = <<1, 4, 9, 16, 25, 36, 49, 64, 81, 100>>
    /\ acc = 385

---------------------------------------------------------------------------
(* SpecFunc: two pull-function cursors of one type func_iterator<F, int>    *)

FuncTypes == [kind : FuncKinds, copyAssignable : BOOLEAN]

InitFunc ==
    /\ IdleCount
    /\ IdleTrav
    /\ IdleMap
    /\ IdlePos
    /\ IdleVal
    /\ IdleAux
    /\ ftype \in FuncTypes
    /\ fi = [s \in Slots |-> RawFunc]
    /\ life = [s \in Slots |-> "unborn"]
    /\ since = NoPair
    /\ obs = NoObs

\* a cursor object exists in the slot
Exists(s) == life[s] \in {"alive", "moved"}

\* no cursor object exists in the slot: one can be constructed there
Free(s) == life[s] \in {"unborn", "dead"}

JustCopied == [a |-> 0, b |-> 0]

Advanced(s) == IF since = NoPair THEN NoPair ELSE [since EXCEPT ![s] = @ + 1]

\* func_iterator(const F &f), f a freshly written callable
FuncConstruct(s) ==
    /\ Free(s)
    /\ fi' = [fi EXCEPT ![s] = FuncCtor(Lambda(ftype.kind))]
    /\ life' = [life EXCEPT ![s] = "alive"]
    /\ since' = NoPair
    /\ obs' = NoObs
    /\ UNCHANGED <<ftype, notFunc>>

\* func_iterator(const func_iterator &other), other the cursor in slot t
FuncCopyConstruct(s, t) ==
    /\ Free(s)
    /\ life[t] = "alive"
    /\ fi' = [fi EXCEPT ![s] = FuncCopyCtor(fi[t])]
    /\ life' = [life EXCEPT ![s] = "alive"]
    /\ since' = JustCopied
    /\ obs' = NoObs
    /\ UNCHANGED <<ftype, notFunc>>

\* func_iterator(func_iterator &&other): other stays a cursor, moved from
FuncMoveConstruct(s, t) ==
    /\ Free(s)
    /\ life[t] = "alive"
    /\ fi' = [fi EXCEPT ![s] = FuncMoveCtor(fi[t])]
    /\ life' = [life EXCEPT ![s] = "alive", ![t] = "moved"]
    /\ since' = NoPair
    /\ obs' = NoObs
    /\ UNCHANGED <<ftype, notFunc>>

\* operator=(const func_iterator &other) between two different cursors
FuncAssignCopy(s, t) ==
    /\ s # t
    /\ Exists(s)
    /\ life[t] = "alive"
    /\ fi' = [fi EXCEPT ![s] = FuncCopyAssign(fi[s], fi[t], ftype.copyAssignable)]
    /\ life' = [life EXCEPT ![s] = "alive"]
    /\ since' = JustCopied
    /\ obs' = NoObs
    /\ UNCHANGED <<ftype, notFunc>>

\* operator=(func_iterator &&other) between two different cursors
FuncAssignMove(s, t) ==
    /\ s # t
    /\ Exists(s)
    /\ life[t] = "alive"
    /\ fi' = [fi EXCEPT ![s] = FuncMoveAssign(fi[s], fi[t], ftype.copyAssignable)]
    /\ life' = [life EXCEPT ![s] = "alive", ![t] = "moved"]
    /\ since' = NoPair
    /\ obs' = NoObs
    /\ UNCHANGED <<ftype, notFunc>>

\* operator++()
FuncIncrement(s) ==
    /\ life[s] = "alive"
    /\ fi[s].incs < MaxIncs
    /\ fi' = [fi EXCEPT ![s] = FuncPreInc(fi[s])]
    /\ since' = Advanced(s)
    /\ obs' = NoObs
    /\ UNCHANGED <<ftype, life, notFunc>>

\* operator++(int): func_iterator cpy(*this); value() = func(); return cpy;
\* the returned copy becomes the cursor of slot t
FuncPostIncrement(s, t) ==
    /\ life[s] = "alive"
    /\ Free(t)
    /\ fi[s].incs < MaxIncs
    /\ fi' = [fi EXCEPT ![t] = FuncCopyCtor(fi[s]), ![s] = FuncPreInc(fi[s])]
    /\ life' = [life EXCEPT ![t] = "alive"]
    /\ since' = [JustCopied EXCEPT ![s] = 1]
    /\ obs' = NoObs
    /\ UNCHANGED <<ftype, notFunc>>

\* ~func_iterator()
FuncDestroy(s) ==
    /\ Exists(s)
    /\ fi' = [fi EXCEPT ![s] = FuncDtor(fi[s])]
    /\ life' = [life EXCEPT ![s] = "dead"]
    /\ since' = NoPair
    /\ obs' = NoObs
    /\ UNCHANGED <<ftype, notFunc>>

\* operator*() &
FuncDereference(s) ==
    /\ life[s] = "alive"
    /\ obs' = [op |-> "deref", slot |-> s, val |-> FuncDeref(fi[s])]
    /\ UNCHANGED <<ftype, fi, life, since, notFunc>>

\* operator->() &
FuncArrowAccess(s) ==
    /\ life[s] = "alive"
    /\ obs' = [op |-> "arrow", slot |-> s, val |-> FuncArrow(fi[s])]
    /\ UNCHANGED <<ftype, fi, life, since, notFunc>>

\* operator==(a, b)
FuncCompare(s, t) ==
    /\ life[s] = "alive"
    /\ life[t] = "alive"
    /\ obs' = [op |-> "eq", slot |-> s, val |-> IF FuncEq(fi[s], fi[t]) THEN 1 ELSE 0]
    /\ UNCHANGED <<ftype, fi, life, since, notFunc>>

NextFunc ==
    \/ \E s \in Slots : FuncConstruct(s)
    \/ \E s \in Slots, t \in Slots : FuncCopyConstruct(s, t)
    \/ \E s \in Slots, t \in Slots : FuncMoveConstruct(s, t)
    \/ \E s \in Slots, t \in Slots : FuncAssignCopy(s, t)
    \/ \E s \in Slots, t \in Slots : FuncAssignMove(s, t)
    \/ \E s \in Slots : FuncIncrement(s)
    \/ \E s \in Slots, t \in Slots : FuncPostIncrement(s, t)
    \/ \E s \in Slots : FuncDestroy(s)
    \/ \E s \in Slots : FuncDereference(s)
    \/ \E s \in Slots : FuncArrowAccess(s)
    \/ \E s \in Slots, t \in Slots : FuncCompare(s, t)

SpecFunc == InitFunc /\ [][NextFunc]_vars

\* C5: a pull-function cursor invokes its callable once at construction and
\* once per increment, and never on dereference, arrow access, comparison or
\* copy: after k increments the callable has been invoked k+1 times and every
\* dereference returns its (k+1)-th output.
FuncCallsOncePerStep ==
    /\ \A s \in Slots :
          life[s] = "alive" =>
              /\ fi[s].func.func.calls = fi[s].incs + 1
              /\ FuncDeref(fi[s]) = OutputAt(ftype.kind, fi[s].incs + 1)
    /\ obs.op \in {"deref", "arrow"} =>
          obs.val = OutputAt(ftype.kind, fi[obs.slot].incs + 1)

\* a cursor incremented twice is dereferenced to the third output, next to a
\* copy of it
FuncCallsWitness ==
    /\ ftype.kind = "squares"
    /\ obs = [op |-> "deref", slot |-> "a", val |-> 9]
    /\ fi["a"].incs = 2
    /\ life["b"] = "alive"
    /\ since # NoPair

\* the copy and its source hold equal cached values and equal callables
\* whenever both were advanced the same number of times since the copy
CopiesAgree ==
    (since # NoPair /\ since["a"] = since["b"]
        /\ life["a"] = "alive" /\ life["b"] = "alive") =>
            /\ FuncDeref(fi["a"]) = FuncDeref(fi["b"])
            /\ fi["a"].func.func = fi["b"].func.func

\* an increment of one cursor leaves what the other dereferences to unchanged
AdvanceLeavesOther ==
    \A s \in Slots, t \in Slots :
        (s # t /\ life[s] = "alive" /\ life[t] = "alive" /\ life'[t] = "alive"
            /\ fi'[s] = FuncPreInc(fi[s])) =>
                FuncDeref(fi'[t]) = FuncDeref(fi[t])

\* C6: copy construction and copy assignment give the target the source's
\* cached value and its own copy of the callable's state: advancing either
\* cursor never changes what the other dereferences to, and advancing both
\* the same number of times makes them dereference to equal values.
FuncCopyIndependent == []CopiesAgree /\ [][AdvanceLeavesOther]_vars

\* both the source and its copy were advanced twice after the copy
FuncCopyWitness ==
    /\ since = [a |-> 2, b |-> 2]
    /\ ftype.kind = "counter"
    /\ life["a"] = "alive" /\ life["b"] = "alive"
    /\ FuncDeref(fi["a"]) = 4
    /\ FuncDeref(fi["b"]) = 4

\* C7: the cache of every pull-function cursor is constructed exactly once,
\* when the cursor is constructed, and destroyed exactly once, when the cursor
\* is destroyed; copies, moves, assignments and increments in between neither
\* construct nor destroy it, also for a cursor that was moved from.
FuncCacheOnce ==
    \A s \in Slots :
        /\ life[s] = "unborn" => fi[s].cache = [ctor |-> 0, dtor |-> 0]
        /\ Exists(s) => fi[s].cache = [ctor |-> 1, dtor |-> 0]
        /\ life[s] = "dead" => fi[s].cache = [ctor |-> 1, dtor |-> 1]

\* a cursor that was moved from still holds its constructed cache, next to
\* the cursor it was moved to, which has been incremented since; the callable
\* type has no copy assignment
FuncCacheWitness ==
    /\ life["a"] = "moved"
    /\ life["b"] = "alive"
    /\ fi["a"].incs = 1
    /\ fi["b"].incs = 2
    /\ fi["a"].cache = [ctor |-> 1, dtor |-> 0]
    /\ ~ftype.copyAssignable

---------------------------------------------------------------------------
(* SpecUnary: two mutate-function cursors of one type                       *)
(* unary_func_iterator<F, int>, in the slots of SpecFunc                    *)

UnaryTypes == [kind : UnaryKinds, copyAssignable : BOOLEAN]

\* the values the constructor arguments build
UnaryStarts == {0, 1}

InitUnary ==
    /\ IdleCount
    /\ IdleTrav
    /\ IdleMap
    /\ IdlePos
    /\ IdleVal
    /\ IdleAux
    /\ ftype \in UnaryTypes
    /\ fi = [s \in Slots |-> RawFunc]
    /\ life = [s \in Slots |-> "unborn"]
    /\ since = NoPair
    /\ obs = NoObs

\* make_unary_func_iterator<int>(f, v), f a freshly written callable
UnaryConstruct(s, v) ==
    /\ Free(s)
    /\ fi' = [fi EXCEPT ![s] = unary_func_iterator(Lambda(ftype.kind), v)]
    /\ life' = [life EXCEPT ![s] = "alive"]
    /\ obs' = NoObs
    /\ UNCHANGED <<ftype, since, notFunc>>

\* unary_func_iterator(const unary_func_iterator &other)
UnaryCopyConstruct(s, t) ==
    /\ Free(s)
    /\ life[t] = "alive"
    /\ fi' = [fi EXCEPT ![s] = UnaryCopyCtor(fi[t])]
    /\ life' = [life EXCEPT ![s] = "alive"]
    /\ obs' = NoObs
    /\ UNCHANGED <<ftype, since, notFunc>>

\* operator++()
UnaryIncrement(s) ==
    /\ life[s] = "alive"
    /\ fi[s].incs < MaxIncs
    /\ fi' = [fi EXCEPT ![s] = UnaryPreInc(fi[s])]
    /\ obs' = NoObs
    /\ UNCHANGED <<ftype, life, since, notFunc>>

\* operator++(int): unary_func_iterator cpy(*this); func(value); return cpy;
\* the returned copy becomes the cursor of slot t
UnaryPostIncrement(s, t) ==
    /\ life[s] = "alive"
    /\ Free(t)
    /\ fi[s].incs < MaxIncs
    /\ fi' = [fi EXCEPT ![t] = UnaryCopyCtor(fi[s]), ![s] = UnaryPreInc(fi[s])]
    /\ life' = [life EXCEPT ![t] = "alive"]
    /\ obs' = [op |-> "postinc", slot |-> s, val |-> UnaryDeref(fi[s])]
    /\ UNCHANGED <<ftype, since, notFunc>>

\* ~unary_func_iterator()
UnaryDestroy(s) ==
    /\ life[s] = "alive"
    /\ fi' = [fi EXCEPT ![s] = [@ EXCEPT !.func = AFDtor(@)]]
    /\ life' = [life EXCEPT ![s] = "dead"]
    /\ obs' = NoObs
    /\ UNCHANGED <<ftype, since, notFunc>>

\* operator*() &
UnaryDereference(s) ==
    /\ life[s] = "alive"
    /\ obs' = [op |-> "deref", slot |-> s, val |-> UnaryDeref(fi[s])]
    /\ UNCHANGED <<ftype, fi, life, since, notFunc>>

\* operator==(a, b)
UnaryCompare(s, t) ==
    /\ life[s] = "alive"
    /\ life[t] = "alive"
    /\ obs' = [op |-> "eq", slot |-> s, val |-> IF UnaryEq(fi[s], fi[t]) THEN 1 ELSE 0]
    /\ UNCHANGED <<ftype, fi, life, since, notFunc>>

NextUnary ==
    \/ \E s \in Slots, v \in UnaryStarts : UnaryConstruct(s, v)
    \/ \E s \in Slots, t \in Slots : UnaryCopyConstruct(s, t)
    \/ \E s \in Slots : UnaryIncrement(s)
    \/ \E s \in Slots, t \in Slots : UnaryPostIncrement(s, t)
    \/ \E s \in Slots : UnaryDestroy(s)
    \/ \E s \in Slots : UnaryDereference(s)
    \/ \E s \in Slots, t \in Slots : UnaryCompare(s, t)

SpecUnary == InitUnary /\ [][NextUnary]_vars

RECURSIVE Iterate(_, _, _)
\* f applied k times to v
Iterate(f, v, k) == IF k = 0 THEN v ELSE Mutate(f, Iterate(f, v, k - 1))

\* C27: a mutate-function cursor does not invoke its callable at
\* construction, invokes it exactly once per increment on the owned value,
\* and never on dereference, comparison or copy: after k increments the
\* callable has been invoked k times, the owned value is the callable applied
\* k times to the value the constructor arguments built, and a dereference
\* returns that value.
UnaryCallsOncePerStep ==
    \A s \in Slots :
        life[s] = "alive" =>
            /\ fi[s].func.func.calls = fi[s].incs
            /\ fi[s].value = Iterate(Lambda(ftype.kind), fi[s].init, fi[s].incs)
            /\ (obs.op = "deref" /\ obs.slot = s) => obs.val = fi[s].value

\* f_2 = make_unary_func_iterator<int>([](int &v) { ++v; }, 1) after three
\* increments and a dereference
UnaryCallsWitness ==
    /\ ftype.kind = "inc"
    /\ fi["a"].tag = "unary"
    /\ life["a"] = "alive"
    /\ fi["a"].init = 1
    /\ fi["a"].incs = 3
    /\ fi["a"].func.func.calls = 3
    /\ obs = [op |-> "deref", slot |-> "a", val |-> 4]

---------------------------------------------------------------------------
(* SpecMap: two mapping cursors of one type over the elements of a vector,  *)
(* which is also written through a raw iterator (README.md, map_raw)        *)

\* *map_raw += 7;
Bump == 7

MapTypes == [kind : MapKinds, copyAssignable : BOOLEAN]

\* the state k of the transform each slot's cursor is built with
StartK(kind, s) == IF kind = "scale" THEN (IF s = "a" THEN 2 ELSE 3) ELSE 0

StartMap(type) ==
    [s \in Slots |-> mapping_iterator(vector_iterator(1), Transform(type.kind, StartK(type.kind, s)))]

InitMap ==
    /\ IdlePos
    /\ IdleVal
    /\ IdleAux
    /\ IdleCount
    /\ IdleTrav
    /\ IdleFunc
    /\ vec = StartVec
    /\ mtype \in {t \in MapTypes : ~t.copyAssignable}
    /\ mp = StartMap(mtype)
    /\ mobs = NoMapObs

\* the cursor points at an element, not at end()
Dereferenceable(m) == m.iter.tag = "vec" => (1 <= m.iter.pos /\ m.iter.pos <= VecLen)

\* operator++()
MapIncrement(s) ==
    /\ mp[s].iter.pos <= VecLen
    /\ mp' = [mp EXCEPT ![s] = MapPreInc(mp[s])]
    /\ mobs' = NoMapObs
    /\ UNCHANGED <<vec, mtype, notMap>>

\* operator--()
MapDecrement(s) ==
    /\ mp[s].iter.pos > 1
    /\ mp' = [mp EXCEPT ![s] = MapPreDec(mp[s])]
    /\ mobs' = NoMapObs
    /\ UNCHANGED <<vec, mtype, notMap>>

\* operator*() &
MapDereference(s) ==
    /\ Dereferenceable(mp[s])
    /\ mobs' = [op |-> "deref", slot |-> s, val |-> MapDeref(mp[s], vec)]
    /\ UNCHANGED <<vec, mtype, mp, notMap>>

\* operator->() &
MapArrowAccess(s) ==
    /\ Dereferenceable(mp[s])
    /\ mp' = [mp EXCEPT ![s] = MapArrow(mp[s], vec)]
    /\ mobs' = [op |-> "arrow", slot |-> s, val |-> MapArrowValue(mp[s], vec)]
    /\ UNCHANGED <<vec, mtype, notMap>>

\* *map_raw += 7, map_raw pointing at element i; each element is written once
VecMutate(i) ==
    /\ vec[i] = StartVec[i]
    /\ vec' = [vec EXCEPT ![i] = @ + Bump]
    /\ mobs' = NoMapObs
    /\ UNCHANGED <<mtype, mp, notMap>>

\* operator=(const mapping_iterator &other) between two different cursors
MapAssignCopy(s, t) ==
    /\ s # t
    /\ mp' = [mp EXCEPT ![s] = MapCopyAssign(mp[s], mp[t], mtype.copyAssignable)]
    /\ mobs' = NoMapObs
    /\ UNCHANGED <<vec, mtype, notMap>>

\* operator=(mapping_iterator &&other) between two different cursors
MapAssignMove(s, t) ==
    /\ s # t
    /\ mp' = [mp EXCEPT ![s] = MapMoveAssign(mp[s], mp[t], mtype.copyAssignable)]
    /\ mobs' = NoMapObs
    /\ UNCHANGED <<vec, mtype, notMap>>

NextMap ==
    \/ \E s \in Slots : MapIncrement(s)
    \/ \E s \in Slots : MapDecrement(s)
    \/ \E s \in Slots : MapDereference(s)
    \/ \E s \in Slots : MapArrowAccess(s)
    \/ \E i \in 1 .. VecLen : VecMutate(i)

SpecMap == InitMap /\ [][NextMap]_vars

\* C9: every dereference of a mapping cursor returns the transform applied to
\* the value the inner cursor refers to at that moment, also after the
\* element was written from outside and after earlier accesses.
MapDerefFresh ==
    mobs.op = "deref" =>
        mobs.val = Apply(mp[mobs.slot].func.func, vec[mp[mobs.slot].iter.pos])

\* the first element was read through the cursor, then written from outside,
\* then dereferenced: the dereference returns the square of the new value
MapDerefFreshWitness ==
    /\ mtype.kind = "square"
    /\ mp["a"].iter.pos = 1
    /\ mp["a"].temp_mapped_value = StartVec[1]
    /\ vec[1] = StartVec[1] + Bump
    /\ mobs = [op |-> "deref", slot |-> "a", val |-> (StartVec[1] + Bump) * (StartVec[1] + Bump)]

\* C10: the value read through m-> equals the value returned by *m, for any
\* transform.
MapArrowEqualsDeref ==
    mobs.op = "arrow" => mobs.val = MapDeref(mp[mobs.slot], vec)

---------------------------------------------------------------------------
(* SpecAssign: assignment between two pull-function cursors and between two *)
(* mapping cursors, the callable types with and without copy assignment     *)

InitAssign ==
    /\ IdlePos
    /\ IdleVal
    /\ IdleAux
    /\ IdleCount
    /\ IdleTrav
    /\ ftype \in {t \in FuncTypes : t.kind = "postcounter"}
    /\ fi = [s \in Slots |-> FuncCtor(Lambda(ftype.kind))]
    /\ life = [s \in Slots |-> "alive"]
    /\ since = NoPair
    /\ obs = NoObs
    /\ vec = StartVec
    /\ mtype = [kind |-> "scale", copyAssignable |-> ftype.copyAssignable]
    /\ mp = StartMap(mtype)
    /\ mobs = NoMapObs

\* a = a on a pull-function cursor
FuncAssignSelf(s) ==
    /\ life[s] = "alive"
    /\ \E o \in FuncSelfAssign(fi[s], ftype.copyAssignable) :
          /\ fi' = [fi EXCEPT ![s] = o.it]
          /\ obs' = [op |-> "selfassign", slot |-> s, val |-> FuncDeref(o.it),
                     same |-> o.it = fi[s], deadRead |-> o.deadRead]
    /\ UNCHANGED <<ftype, life, since, notFunc>>

\* a = a on a mapping cursor
MapAssignSelf(s) ==
    /\ \E o \in MapSelfAssign(mp[s], mtype.copyAssignable) :
          /\ mp' = [mp EXCEPT ![s] = o.it]
          /\ mobs' = [op |-> "selfassign", slot |-> s, val |-> 0,
                      same |-> o.it = mp[s], deadRead |-> o.deadRead]
    /\ UNCHANGED <<vec, mtype, notMap>>

NextAssign ==
    \/ \E s \in Slots : FuncIncrement(s)
    \/ \E s \in Slots, t \in Slots : FuncAssignCopy(s, t)
    \/ \E s \in Slots, t \in Slots : FuncAssignMove(s, t)
    \/ \E s \in Slots : MapIncrement(s)
    \/ \E s \in Slots, t \in Slots : MapAssignCopy(s, t)
    \/ \E s \in Slots, t \in Slots : MapAssignMove(s, t)

SpecAssign == InitAssign /\ [][NextAssign]_vars

\* every cursor holds exactly one live callable
OneLiveCallable ==
    \A s \in Slots : fi[s].func.live = 1 /\ mp[s].func.live = 1

\* what an assignment s = t leaves in s and in t
AssignTakesOver ==
    \A s \in Slots, t \in Slots :
        /\ (FuncAssignCopy(s, t) \/ FuncAssignMove(s, t)) =>
              /\ fi'[s].value = fi[t].value
              /\ fi'[s].func.func = fi[t].func.func
              /\ fi'[s].func.live = 1
        /\ FuncAssignCopy(s, t) => fi'[t] = fi[t]
        /\ (MapAssignCopy(s, t) \/ MapAssignMove(s, t)) =>
              /\ mp'[s].iter = mp[t].iter
              /\ mp'[s].func.func = mp[t].func.func
              /\ mp'[s].func.live = 1
        /\ MapAssignCopy(s, t) => mp'[t] = mp[t]

\* C8: assigning a function-cell or mapping cursor b to a different cursor a
\* of the same type leaves a with b's cached value (b's inner cursor, for a
\* mapping cursor) and b's callable state, whether the callable is assigned
\* natively or destroyed and reconstructed in place; a then holds exactly one
\* live callable, and a copy assignment leaves b unchanged.
AssignAlwaysWorks == []OneLiveCallable /\ [][AssignTakesOver]_vars

\* callables without copy assignment: a was assigned from b after b had been
\* advanced, for the pull-function cursors and for the mapping cursors
AssignWitness ==
    /\ ~ftype.copyAssignable
    /\ fi["b"].incs = 2
    /\ fi["a"] = fi["b"]
    /\ since = JustCopied
    /\ mp["b"].iter.pos = 2
    /\ mp["a"].iter.pos = 2
    /\ mp["a"].func.func = Transform("scale", 3)
    /\ mp["a"].func.live = 1

(* SpecSelf: the cursors of SpecAssign, each advanced and assigned to itself *)

NextSelf ==
    \/ \E s \in Slots : FuncIncrement(s)
    \/ \E s \in Slots : FuncAssignSelf(s)
    \/ \E s \in Slots : MapIncrement(s)
    \/ \E s \in Slots : MapAssignSelf(s)

SpecSelf == InitAssign /\ [][NextSelf]_vars

\* C29: copy-assigning a pull-function or mapping cursor to itself leaves its
\* cached value, its inner cursor and its callable state unchanged, and no
\* step of the assignment reads the stored callable after its lifetime has
\* ended, on the native path and on the destroy-and-reconstruct path alike.
SelfAssignSafe ==
    /\ obs.op = "selfassign" => ~obs.deadRead /\ obs.same
    /\ mobs.op = "selfassign" => ~mobs.deadRead /\ mobs.same

---------------------------------------------------------------------------
(* SpecRange: make_value_range(b, e) over int, mapped once or twice, then   *)
(* measured by distance() and traversed as accumulate(0) traverses it       *)

\* the longest value range explored
MaxSpan == 10

\* the begin values explored
RangeStarts == {-2, 1}

\* the transforms a range is mapped through
RangeKinds == {"square", "identity", "twicesquare", "halve"}

\* the number of mapping cursors wrapped around the cursor
RECURSIVE Depth(_)
Depth(it) == IF it.tag = "map" THEN 1 + Depth(it.iter) ELSE 0

InitRange ==
    /\ IdleCount
    /\ IdleFunc
    /\ IdleMap
    /\ IdlePos
    /\ IdleVal
    /\ IdleAux
    /\ n = 0
    /\ \E b \in RangeStarts, len \in 0 .. MaxSpan : range = make_value_range(IntT, b, b + len)
    /\ g = [tag |-> "range", of |-> range]
    /\ first = count_iterator(value_iterator(0), 0)
    /\ last = count_iterator(value_iterator(0), 0)
    /\ visited = << >>
    /\ acc = 0
    /\ pc = "start"

\* range = range.map(f)
RangeMapStep(kind) ==
    /\ pc = "start"
    /\ Depth(range._begin) < 2
    /\ range' = RangeMap(range, Transform(kind, 0))
    /\ UNCHANGED <<g, n, first, last, visited, acc, pc, notTrav>>

\* n = range.distance()
RangeMeasure ==
    /\ pc = "start"
    /\ n' = RangeDistance(range)
    /\ pc' = "ranged"
    /\ UNCHANGED <<g, range, first, last, visited, acc, notTrav>>

NextRange ==
    \/ \E kind \in RangeKinds : RangeMapStep(kind)
    \/ RangeMeasure
    \/ TravBegin
    \/ TravStep
    \/ TravFinish

SpecRange == InitRange /\ [][NextRange]_vars

\* C14: range.map(f) has the distance of range, its i-th element is f applied
\* to the i-th element of range, and its fold with addition from 0 is the sum
\* of these; for the value range [1, 11) and f(x) = x * x the fold is 385.
MapRangeElements ==
    (pc \in {"ranged", "loop", "done"} /\ Depth(range._begin) = 1) =>
        LET b == g.of._begin
            e == g.of._end
            f == range._begin.func.func
        IN  /\ n = e.data - b.data
            /\ n = RangeDistance(g.of)
            /\ \A i \in 1 .. Len(visited) : visited[i] = Apply(f, b.data + i - 1)
            /\ acc = SumSeq(visited)
            /\ pc = "done" => Len(visited) = n
            /\ (pc = "done" /\ f.kind = "square" /\ b.data = 1 /\ e.data = 11) => acc = 385

\* the squares of 1 .. 10 have been visited and folded
MapRangeWitness ==
    /\ pc = "done"
    /\ range = RangeMap(make_value_range(IntT, 1, 11), Transform("square", 0))
    /\ n = 10
    /\ visited = <<1, 4, 9, 16, 25, 36, 49, 64, 81, 100>>
    /\ acc = 385

\* C15: range.map(f).map(g) yields g(f(x)) for each x of range, in the order
\* of range and as many; through the identity twice it yields the elements of
\* range.
MapRangeComposes ==
    (pc \in {"ranged", "loop", "done"} /\ Depth(range._begin) = 2) =>
        LET b  == g.of._begin
            e  == g.of._end
            f  == range._begin.iter.func.func
            gg == range._begin.func.func
        IN  /\ n = e.data - b.data
            /\ \A i \in 1 .. Len(visited) : visited[i] = Apply(gg, Apply(f, b.data + i - 1))
            /\ pc = "done" => Len(visited) = n
            /\ (f.kind = "identity" /\ gg.kind = "identity") =>
                  \A i \in 1 .. Len(visited) : visited[i] = b.data + i - 1

\* the range [1, 5) mapped through 2 * x * x and then through x / 2 has
\* yielded the squares
MapRangeComposesWitness ==
    /\ pc = "done"
    /\ range = RangeMap(RangeMap(make_value_range(IntT, 1, 5), Transform("twicesquare", 0)),
                        Transform("halve", 0))
    /\ visited = <<1, 4, 9, 16>>

---------------------------------------------------------------------------
(* SpecSpan: make_value_range(b, e) and make_count_range(begin, count),
   measured by distance() and traversed from a copy of begin() until it
   equals end().  g keeps what the range was made from. *)

\* unsigned char: 8 bits, of a rank below int's
ByteT == IntegralType(FALSE, 8, TRUE)

\* the counts of the count ranges: that of R_3, and counts about the
\* greatest value of the 8-bit difference type
SpanCounts == {0, 14, 127, 128, 200}

InitSpan ==
    /\ IdleCount
    /\ IdleFunc
    /\ IdleMap
    /\ IdlePos
    /\ IdleVal
    /\ IdleAux
    /\ n = 0
    /\ \/ \E b \in TValues, e \in TValues :
             /\ b <= e
             /\ range = make_value_range(UnsignedT, b, e)
             /\ g = [tag |-> "range", made |-> "value", b |-> b, e |-> e]
       \/ /\ range = make_value_range(IntT, 4, 12)
          /\ g = [tag |-> "range", made |-> "value", b |-> 4, e |-> 12]
       \/ \E T \in {IntT, ByteT}, c \in SpanCounts :
             /\ range = make_count_range(ValueCtor(T, 12), c)
             /\ g = [tag |-> "range", made |-> "count", begin |-> ValueCtor(T, 12), count |-> c]
    /\ first = count_iterator(value_iterator(0), 0)
    /\ last = count_iterator(value_iterator(0), 0)
    /\ visited = << >>
    /\ acc = 0
    /\ pc = "start"

NextSpan ==
    \/ RangeMeasure
    \/ TravBegin
    \/ TravStep
    \/ TravFinish

SpecSpan == InitSpan /\ [][NextSpan]_vars

\* the range was made by make_value_range / by make_count_range
ValueSpan == g.tag = "range" /\ g.made = "value"

CountSpan == g.tag = "range" /\ g.made = "count"

\* the traversal of make_value_range(b, e), b <= e: it has visited b, b + 1,
\* ... in order, it stops after exactly e - b increments, and the range is
\* empty exactly when b = e
SpanVisits ==
    /\ pc \in {"loop", "done"} =>
          /\ \A i \in 1 .. Len(visited) : visited[i] = g.b + i - 1
          /\ Len(visited) <= g.e - g.b
          /\ first.data = g.b + Len(visited)
    /\ pc = "done" => Len(visited) = g.e - g.b
    /\ IterCompare("eq", RangeBegin(range), RangeEnd(range)) <=> g.b = g.e

\* C25, as stated: the traversal visits b .. e - 1 and stops after e - b
\* increments, the range is empty exactly when b = e, and distance() is e - b
SpanExact ==
    ValueSpan =>
        /\ SpanVisits
        /\ pc # "start" => n = g.e - g.b

\* C25, amended: the traversal visits b .. e - 1 and stops after e - b
\* increments, the range is empty exactly when b = e, and distance() is
\* e - b converted to the difference type of the element type: e - b itself
\* whenever the difference type holds it
SpanModular ==
    ValueSpan =>
        /\ SpanVisits
        /\ pc # "start" =>
              /\ n = Conv(make_signed_t(range._begin.ty), g.e - g.b)
              /\ Fits(make_signed_t(range._begin.ty), g.e - g.b) => n = g.e - g.b

\* make_value_range(4, 12) was measured as 8 and traversed to the end
SpanWitness ==
    /\ ValueSpan
    /\ g.b = 4 /\ g.e = 12
    /\ n = 8
    /\ pc = "done"
    /\ visited = <<4, 5, 6, 7, 8, 9, 10, 11>>

\* C28: make_count_range(begin, n).distance() is n for every n >= 0 of the
\* counter type, also over an inner cursor whose difference type is
\* narrower than the counter
CountSpanDistance ==
    (CountSpan /\ pc # "start") => n = g.count

---------------------------------------------------------------------------
(* SpecPos: two mapping cursors of one type over a random access inner      *)
(* cursor (a vector iterator or a value cursor), moved by ++, --, += and    *)
(* -=, read by *, -> and [], and compared with each other                   *)

\* the inner cursors the mapping cursors are built over: begin() of the
\* vector, or a value cursor at the top of the unsigned range
StartInners == {vector_iterator(1), value_iterator(Modulus - 1)}

\* the positions explored: inside the vector or at its end(); for a value
\* cursor, within MaxCount steps of where it started
InWindow(it) ==
    IF it.tag = "vec"
    THEN 1 <= it.pos /\ it.pos <= VecLen + 1
    ELSE InRange(Conv(make_signed_t(it.ty), it.data - (Modulus - 1)))

\* the transform types explored
PosTypes == {t \in MapTypes : t.kind \in {"scale", "square"} /\ ~t.copyAssignable}

InitPos ==
    /\ IdleVal
    /\ IdleAux
    /\ IdleCount
    /\ IdleTrav
    /\ IdleFunc
    /\ vec = StartVec
    /\ mtype \in PosTypes
    /\ \E i \in StartInners :
          /\ mp = [s \in Slots |->
                     mapping_iterator(i, Transform(mtype.kind, StartK(mtype.kind, s)))]
          /\ bare = [s \in Slots |-> i]
    /\ mobs = NoMapObs

\* ++m, and ++ on the bare cursor
PosIncrement(s) ==
    /\ InWindow(IterPreInc(bare[s]))
    /\ mp' = [mp EXCEPT ![s] = MapPreInc(mp[s])]
    /\ bare' = [bare EXCEPT ![s] = IterPreInc(bare[s])]
    /\ mobs' = NoMapObs
    /\ UNCHANGED <<vec, mtype, notPos>>

\* --m, and -- on the bare cursor
PosDecrement(s) ==
    /\ InWindow(IterPreDec(bare[s]))
    /\ mp' = [mp EXCEPT ![s] = MapPreDec(mp[s])]
    /\ bare' = [bare EXCEPT ![s] = IterPreDec(bare[s])]
    /\ mobs' = NoMapObs
    /\ UNCHANGED <<vec, mtype, notPos>>

\* m += d, and += d on the bare cursor
PosAdd(s, d) ==
    /\ InWindow(IterAddAssign(bare[s], d))
    /\ mp' = [mp EXCEPT ![s] = MapAddAssign(mp[s], d)]
    /\ bare' = [bare EXCEPT ![s] = IterAddAssign(bare[s], d)]
    /\ mobs' = NoMapObs
    /\ UNCHANGED <<vec, mtype, notPos>>

\* m -= d, and -= d on the bare cursor
PosSub(s, d) ==
    /\ InWindow(IterSubAssign(bare[s], d))
    /\ mp' = [mp EXCEPT ![s] = MapSubAssign(mp[s], d)]
    /\ bare' = [bare EXCEPT ![s] = IterSubAssign(bare[s], d)]
    /\ mobs' = NoMapObs
    /\ UNCHANGED <<vec, mtype, notPos>>

\* m[d]
PosIndex(s, d) ==
    /\ InWindow(IterAddAssign(mp[s].iter, d))
    /\ Dereferenceable([iter |-> IterAddAssign(mp[s].iter, d)])
    /\ mobs' = [op |-> "index", slot |-> s, val |-> MapIndex(mp[s], d, vec)]
    /\ UNCHANGED <<vec, mtype, mp, bare, notPos>>

\* mp[s] op mp[t]
PosCompare(s, t, op) ==
    /\ mobs' = [op |-> op, slot |-> s, other |-> t, val |-> MapCompare(op, mp[s], mp[t])]
    /\ UNCHANGED <<vec, mtype, mp, bare, notPos>>

NextPos ==
    \/ \E s \in Slots : PosIncrement(s)
    \/ \E s \in Slots : PosDecrement(s)
    \/ \E d \in DiffValues : PosAdd("a", d)
    \/ \E d \in DiffValues : PosSub("a", d)
    \/ \E s \in Slots : MapDereference(s)
    \/ MapArrowAccess("a")
    \/ \E d \in DiffValues : PosIndex("a", d)
    \/ \E s \in Slots, t \in Slots, op \in CmpOps : s # t /\ PosCompare(s, t, op)

SpecPos == InitPos /\ [][NextPos]_vars

\* C11: ==, !=, <, <=, >, >= and the distance of two mapping cursors return
\* what the same operation returns on their inner cursors, whatever the
\* transforms and the mapped values are.
MapCompareForwards ==
    mobs.op \in CmpOps =>
        mobs.val = IterCompare(mobs.op, bare[mobs.slot], bare[mobs.other])

\* two cursors with different transforms stand on the same element, where
\* their mapped values differ, and compare equal
MapCompareWitness ==
    /\ mtype.kind = "scale"
    /\ mp["a"].iter = vector_iterator(2)
    /\ mp["b"].iter = vector_iterator(2)
    /\ MapDeref(mp["a"], vec) # MapDeref(mp["b"], vec)
    /\ mobs = [op |-> "eq", slot |-> "a", other |-> "b", val |-> TRUE]

\* C12: after any sequence of ++, --, += d and -= d the inner cursor of a
\* mapping cursor is in the state the same sequence puts a bare copy of the
\* initial inner cursor in, and the stored transform is the one it was
\* built with.
MapPositionFaithful ==
    \A s \in Slots :
        /\ mp[s].iter = bare[s]
        /\ mp[s].func = AFCtor(Transform(mtype.kind, StartK(mtype.kind, s)))

\* a cursor over the value cursor that was advanced past the top of the
\* unsigned range by += and taken back by --
MapPositionWitness ==
    /\ mtype.kind = "scale"
    /\ bare["a"] = value_iterator(1)
    /\ bare["b"] = value_iterator(Modulus - 2)
    /\ mp["a"].iter = value_iterator(1)

\* what an access of slot s leaves alone
AccessFrame(s) ==
    /\ mp'[s].iter = mp[s].iter
    /\ mp'[s].func = mp[s].func
    /\ vec' = vec
    /\ bare' = bare
    /\ \A t \in Slots \ {s} : mp'[t] = mp[t]

\* the accesses: every step that is one records it in mobs
AccessOps == {"deref", "arrow", "index"}

AccessLeavesPosition == mobs'.op \in AccessOps => AccessFrame(mobs'.slot)

\* C13: *m, m-> and m[d] on an lvalue mapping cursor leave the position of
\* the inner cursor, the element it refers to, the transform and every other
\* cursor unchanged; only the scratch slot of m may change.
MapAccessFrame == [][AccessLeavesPosition]_vars

\* an arrow access was made after the cursor had moved: the scratch slot
\* holds the element, the cursor is where the bare cursor is
MapAccessWitness ==
    /\ mobs.op = "arrow"
    /\ mobs.slot = "a"
    /\ mp["a"].iter = vector_iterator(2)
    /\ mp["a"].temp_mapped_value = StartVec[2]
    /\ bare["a"] = vector_iterator(2)

---------------------------------------------------------------------------
(* SpecValue: a value cursor over each element type, beside a reference
   value of that type that is given the same operators, and the requests a
   program makes of the cursor's interface.  The build fixes what a signed
   overflow at int's rank or above does: it wraps, or it ends the program. *)

Overflowing == {"wrap", "trap"}

\* T's own ++, --, += and -= on a value x of the element type
ElemInc(T, x) == Conv(T.arith, x + 1)

ElemDec(T, x) == Conv(T.arith, x - 1)

ElemAddAssign(T, x, d) == Conv(T.arith, x + d)

ElemSubAssign(T, x, d) == Conv(T.arith, x - d)

\* the values of value_iterator<T>::difference_type the runs offset by
Offsets(T) == MinOf(make_signed_t(T.arith)) .. MaxOf(make_signed_t(T.arith))

\* the offsets at the ends of the difference type, and one step either way
EdgeOffsets(T) ==
    {MinOf(make_signed_t(T.arith)), 0 - 1, 1, MaxOf(make_signed_t(T.arith))}

StartValues(T) == {MinOf(T.arith), 0, MaxOf(T.arith)}

Forms == {"prefix", "postfix"}

\* the evaluation of x ends the program in this build
Traps(T, x) == overflow = "trap" /\ Overflows(T.arith, x)

Category == CategoryOf("value", vtype)

Running == vtype.runs /\ ~vobs.trapped

InitValue ==
    /\ IdleCount /\ IdleTrav /\ IdleFunc /\ IdleMap /\ IdlePos /\ IdleAux
    /\ vtype \in ElemTypes
    /\ overflow \in Overflowing
    /\ \E v \in StartValues(vtype) :
          /\ vc = ValueCtor(vtype.arith, v)
          /\ ref = v
    /\ trail = << >>
    /\ vobs = NoValObs

\* the last two requests of the run, when both were steps of the cursor
Trailed(op, before) ==
    IF Len(trail) = 2 THEN <<trail[2], [op |-> op, before |-> before]>>
    ELSE Append(trail, [op |-> op, before |-> before])

Trapped(op) == [op |-> op, trapped |-> TRUE]

\* ++c and c++
ValIncrement(form) ==
    /\ Running
    /\ Accepts(Category, IF form = "prefix" THEN "inc" ELSE "postinc")
    /\ IF Traps(vtype, vc.data + 1)
       THEN /\ vobs' = Trapped("inc")
            /\ UNCHANGED <<vc, ref, trail>>
       ELSE /\ vc' = ValuePreInc(vc)
            /\ ref' = ElemInc(vtype, ref)
            /\ trail' = Trailed("inc", ValueDeref(vc))
            /\ vobs' = [op |-> "inc", form |-> form, trapped |-> FALSE,
                        val |-> IF form = "prefix" THEN ValueDeref(vc') ELSE ValueDeref(vc)]
    /\ UNCHANGED <<vtype, overflow, notVal>>

\* --c and c--
ValDecrement(form) ==
    /\ Running
    /\ Accepts(Category, IF form = "prefix" THEN "dec" ELSE "postdec")
    /\ IF Traps(vtype, vc.data - 1)
       THEN /\ vobs' = Trapped("dec")
            /\ UNCHANGED <<vc, ref, trail>>
       ELSE /\ vc' = ValuePreDec(vc)
            /\ ref' = ElemDec(vtype, ref)
            /\ trail' = Trailed("dec", ValueDeref(vc))
            /\ vobs' = [op |-> "dec", form |-> form, trapped |-> FALSE,
                        val |-> IF form = "prefix" THEN ValueDeref(vc') ELSE ValueDeref(vc)]
    /\ UNCHANGED <<vtype, overflow, notVal>>

\* c += d
ValAdd(d) ==
    /\ Running
    /\ Accepts(Category, "addassign")
    /\ IF Traps(vtype, vc.data + d)
       THEN /\ vobs' = Trapped("addassign")
            /\ UNCHANGED <<vc, ref>>
       ELSE /\ vc' = ValueAddAssign(vc, d)
            /\ ref' = ElemAddAssign(vtype, ref, d)
            /\ vobs' = [op |-> "addassign", i |-> d, trapped |-> FALSE, val |-> ValueDeref(vc')]
    /\ trail' = << >>
    /\ UNCHANGED <<vtype, overflow, notVal>>

\* c -= d
ValSub(d) ==
    /\ Running
    /\ Accepts(Category, "subassign")
    /\ IF Traps(vtype, vc.data - d)
       THEN /\ vobs' = Trapped("subassign")
            /\ UNCHANGED <<vc, ref>>
       ELSE /\ vc' = ValueSubAssign(vc, d)
            /\ ref' = ElemSubAssign(vtype, ref, d)
            /\ vobs' = [op |-> "subassign", i |-> d, trapped |-> FALSE, val |-> ValueDeref(vc')]
    /\ trail' = << >>
    /\ UNCHANGED <<vtype, overflow, notVal>>

\* the distances rand_test and urand_test take: (c + i) - c, (c - i) - c
\* and (c + i) - (c + j), each operand a copy of c that was offset
DistanceKinds == {"plusback", "minusback", "between"}

ValDistance(kind, i, j) ==
    /\ Running
    /\ Accepts(Category, "plus") /\ Accepts(Category, "minus") /\ Accepts(Category, "diff")
    /\ LET a == IF kind = "minusback" THEN ValueSubAssign(vc, i) ELSE ValueAddAssign(vc, i)
           b == IF kind = "between" THEN ValueAddAssign(vc, j) ELSE vc
           atA == IF kind = "minusback" THEN vc.data - i ELSE vc.data + i
           atB == IF kind = "between" THEN vc.data + j ELSE vc.data
       IN  vobs' = IF Traps(vtype, atA) \/ Traps(vtype, atB) \/ Traps(vtype, a.data - b.data)
                   THEN [op |-> kind, i |-> i, j |-> j, trapped |-> TRUE]
                   ELSE [op |-> kind, i |-> i, j |-> j, trapped |-> FALSE, val |-> ValueDiff(a, b)]
    /\ trail' = << >>
    /\ UNCHANGED <<vtype, overflow, vc, ref, notVal>>

\* urand_test: c against a copy b = c + i: c < b, c == b and b - c
ValOrder(i) ==
    /\ Running
    /\ Accepts(Category, "plus") /\ Accepts(Category, "lt") /\ Accepts(Category, "diff")
    /\ LET b == ValueAddAssign(vc, i)
       IN  vobs' = IF Traps(vtype, vc.data + i) \/ Traps(vtype, b.data - vc.data)
                   THEN [op |-> "order", i |-> i, trapped |-> TRUE]
                   ELSE [op |-> "order", i |-> i, trapped |-> FALSE, other |-> ValueDeref(b),
                         lt |-> ValueCompare("lt", vc, b), eq |-> ValueCompare("eq", vc, b),
                         val |-> ValueCompare("diff", b, vc)]
    /\ trail' = << >>
    /\ UNCHANGED <<vtype, overflow, vc, ref, notVal>>

\* the program names an operation of a cursor over the element type:
\* overload resolution finds a declaration that takes part, or the build
\* stops there
ValAttempt(variant, name) ==
    /\ ~vobs.trapped
    /\ vobs' = [op |-> "attempt", variant |-> variant, name |-> name, trapped |-> FALSE,
                accepted |-> Accepts(CategoryOf(variant, vtype), name)]
    /\ trail' = << >>
    /\ UNCHANGED <<vtype, overflow, vc, ref, notVal>>

NextValue ==
    \/ \E form \in Forms : ValIncrement(form)
    \/ \E form \in Forms : ValDecrement(form)
    \/ \E d \in EdgeOffsets(vtype) : ValAdd(d)
    \/ \E d \in EdgeOffsets(vtype) : ValSub(d)
    \/ \E kind \in DistanceKinds, i \in Offsets(vtype), j \in EdgeOffsets(vtype) \cup {0} :
          (kind # "between" => j = 0) /\ ValDistance(kind, i, j)
    \/ \E i \in Offsets(vtype) : ValOrder(i)
    \/ \E variant \in Variants, name \in AlwaysOps \cup BidirOps \cup RandOps :
          ValAttempt(variant, name)

SpecValue == InitValue /\ [][NextValue]_vars

\* C16: a value cursor mirrors its element type: after any sequence of ++,
\* --, += d and -= d its dereference equals a reference value of the element
\* type that started equal and was given the same operators in the same order
ValueMirrors == vtype.runs => ValueDeref(vc) = ref

\* an unsigned cursor that -= 1 took from 0 to the greatest value, and the
\* reference with it
ValueMirrorsWitness ==
    /\ vtype.name = "unsigned int"
    /\ vobs.op = "subassign" /\ vobs.i = 1
    /\ ValueDeref(vc) = MaxOf(vtype.arith)
    /\ ref = MaxOf(vtype.arith)

\* the cursor's last two steps were ++ then --, or -- then ++
PairDone ==
    /\ Len(trail) = 2
    /\ trail[1].op # trail[2].op

\* the cursor holds what it held before its last two steps
PairRestores == PairDone => ValueDeref(vc) = trail[1].before

\* C17, as stated: for a cursor of Bidirectional or RandomAccess tier, from
\* any state, ++c then --c (and --c then ++c) completes and leaves the
\* dereferenced value equal to the value before the pair
IncDecUndoFromAnyState ==
    bidirectional(Category) =>
        /\ PairRestores
        /\ ~(vobs.trapped /\ vobs.op \in {"inc", "dec"})

\* C17, amended: whenever both steps of the pair complete, the dereferenced
\* value equals the value before the pair; a step completes in every build
\* unless it overflows a signed element type of int's rank or above
IncDecUndo ==
    /\ bidirectional(Category) => PairRestores
    /\ (vobs.trapped /\ vobs.op \in {"inc", "dec"}) =>
          /\ vtype.arith.signed /\ ~vtype.arith.narrow
          /\ ValueDeref(vc) \in {MinOf(vtype.arith), MaxOf(vtype.arith)}

\* an unsigned cursor at the greatest value: ++ wrapped it to 0 and -- took
\* it back
IncDecUndoWitness ==
    /\ vtype.name = "unsigned int"
    /\ trail = <<[op |-> "inc", before |-> MaxOf(vtype.arith)], [op |-> "dec", before |-> 0]>>
    /\ ValueDeref(vc) = MaxOf(vtype.arith)

\* the last request was one of the three distances and it completed
Measured == vobs.op \in DistanceKinds /\ ~vobs.trapped

\* C18, as stated: for every offset of the difference type, (c + d) - c = d,
\* (c - d) - c = -d and (c + i) - (c + j) = i - j, for signed and unsigned
\* element types, also where the stored value passes the ends of its range
DistanceExact ==
    /\ vobs.op \in DistanceKinds => ~vobs.trapped
    /\ Measured =>
          vobs.val = CASE vobs.op = "plusback"  -> vobs.i
                       [] vobs.op = "minusback" -> 0 - vobs.i
                       [] vobs.op = "between"   -> vobs.i - vobs.j

\* C18, amended: a distance that completes is d for (c + d) - c, and is -d
\* and i - j converted to the difference type for the other two: exactly -d
\* and i - j when the difference type holds them; and it completes in every
\* build when the element type is unsigned or of a rank below int's
DistanceModular ==
    /\ (vobs.op \in DistanceKinds /\ vobs.trapped) =>
          vtype.arith.signed /\ ~vtype.arith.narrow
    /\ Measured =>
          vobs.val = CASE vobs.op = "plusback"  -> vobs.i
                       [] vobs.op = "minusback" -> Conv(make_signed_t(vtype.arith), 0 - vobs.i)
                       [] vobs.op = "between"   ->
                              Conv(make_signed_t(vtype.arith), vobs.i - vobs.j)

\* an unsigned cursor at the greatest value, offset by 2 past the end of
\* its range, is at distance 2 from its unoffset copy
DistanceWitness ==
    /\ vtype.name = "unsigned int"
    /\ ValueDeref(vc) = MaxOf(vtype.arith)
    /\ vobs.op = "plusback" /\ vobs.i = 2
    /\ ~vobs.trapped /\ vobs.val = 2

\* the tier the element type is to have: RandomAccess when it is integral
\* or a pointer, else Bidirectional when it has a prefix decrement, else
\* Forward
TierOfType(T) ==
    IF T.integral \/ T.pointer THEN "random_access"
    ELSE IF T.dec # "none" THEN "bidirectional"
    ELSE "forward"

\* C19: the tier of a value cursor is that function of its element type, one
\* tier for every element type, whatever the cursor holds
TierByElementType ==
    vtype \in ElemTypes => CategoryOf("value", vtype) = TierOfType(vtype)

\* the operations of a tier
TierOps(cat) ==
    AlwaysOps
      \cup (IF cat \in {"bidirectional", "random_access"} THEN BidirOps ELSE {})
      \cup (IF cat = "random_access" THEN RandOps ELSE {})

\* the cursor operation a step of the run stands for
StepOps == {"inc", "dec", "addassign", "subassign"}

OpsOfTierStep ==
    /\ vobs'.op = "attempt" =>
          /\ vobs'.accepted <=> vobs'.name \in TierOps(CategoryOf(vobs'.variant, vtype))
          /\ ~vobs'.trapped
          /\ UNCHANGED <<vc, ref>>
    /\ vobs'.op \in StepOps => vobs'.op \in TierOps(Category)
    /\ vobs'.op \in DistanceKinds => {"plus", "minus", "diff"} \subseteq TierOps(Category)

\* C20: a value, counting or mapping cursor accepts exactly the operations
\* of its tier: an operation outside it is refused when the program is built,
\* changes nothing and ends nothing at run time, and no step of a run is an
\* operation outside the tier
OpsOfTier == [][OpsOfTierStep]_vars

\* a decrement asked of a counting cursor over a forward-only element type
\* was refused
OpsOfTierWitness ==
    /\ vtype.name = "up_counter"
    /\ vobs.op = "attempt" /\ vobs.variant = "count" /\ vobs.name = "dec"
    /\ ~vobs.accepted

\* the last request compared an unsigned cursor a with a copy b
Ordered == vobs.op = "order" /\ ~vobs.trapped /\ ~vtype.arith.signed

\* C30, as stated: for value cursors a and b over a w-bit unsigned type,
\* a < b exactly when b - a > 0 and a == b exactly when b - a == 0, for all
\* stored values, b - a being the distance in the signed w-bit type
OrderAgreesWithDistance ==
    Ordered =>
        /\ vobs.lt <=> vobs.val > 0
        /\ vobs.eq <=> vobs.val = 0

\* C30, amended: a == b exactly when b - a == 0; a < b exactly when
\* b - a > 0 provided the stored values differ by less than 2^(w-1); where
\* they differ by 2^(w-1) or more the sign of b - a is the opposite
OrderAgreesWhenNear ==
    Ordered =>
        /\ vobs.eq <=> vobs.val = 0
        /\ Fits(make_signed_t(vtype.arith), vobs.other - ValueDeref(vc)) =>
              (vobs.lt <=> vobs.val > 0)
        /\ (~Fits(make_signed_t(vtype.arith), vobs.other - ValueDeref(vc))) =>
              (vobs.lt <=> vobs.val < 0)

\* an unsigned cursor at 1 against a copy two further on: below it, at
\* distance 2
OrderWitness ==
    /\ vtype.name = "unsigned int"
    /\ ValueDeref(vc) = 1
    /\ vobs.op = "order" /\ vobs.i = 2
    /\ vobs.lt /\ ~vobs.eq /\ vobs.val = 2

---------------------------------------------------------------------------
(* SpecPost: one cursor of any variant, stepped by the prefix and by the    *)
(* postfix forms of ++ and --                                               *)

PostStarts ==
    {value_iterator(v) : v \in {0, Modulus - 1}}
    \cup {FuncCtor(Lambda(k)) : k \in FuncKinds}
    \cup {unary_func_iterator(Lambda(k), 1) : k \in UnaryKinds}
    \cup {count_iterator(value_iterator(0), 0),
          count_iterator(FuncCtor(Lambda("counter")), 0)}
    \cup {mapping_iterator(vector_iterator(1), Transform("scale", 3)),
          mapping_iterator(value_iterator(2), Transform("square", 0))}

InitPost ==
    /\ IdleCount /\ IdleTrav /\ IdleFunc /\ IdleMap /\ IdlePos /\ IdleVal
    /\ tmp = NoTmp
    /\ \E c \in PostStarts : post = [op |-> "none", it |-> c, before |-> c, ret |-> c]

RECURSIVE CanInc(_), CanDec(_)
\* the cursor can be advanced within the bounds of the model
CanInc(it) ==
    CASE it.tag \in {"func", "unary"} -> it.incs < MaxIncs
      [] it.tag = "count"             -> it.count < MaxCount /\ CanInc(it.iter)
      [] it.tag = "map"               -> CanInc(it.iter)
      [] it.tag = "vec"               -> it.pos <= VecLen
      [] OTHER                        -> TRUE

\* the cursor exposes -- and can be moved back within the bounds of the model
CanDec(it) ==
    /\ Decrementable(it)
    /\ CASE it.tag = "count" -> it.count > -MaxCount /\ CanDec(it.iter)
         [] it.tag = "map"   -> CanDec(it.iter)
         [] it.tag = "vec"   -> it.pos > 1
         [] OTHER            -> TRUE

\* ++it
PostAdvance ==
    /\ CanInc(post.it)
    /\ post' = [op |-> "pre++", it |-> IterPreInc(post.it), before |-> post.it,
                ret |-> IterPreInc(post.it)]
    /\ UNCHANGED <<tmp, notAux>>

\* --it
PostRetreat ==
    /\ CanDec(post.it)
    /\ post' = [op |-> "pre--", it |-> IterPreDec(post.it), before |-> post.it,
                ret |-> IterPreDec(post.it)]
    /\ UNCHANGED <<tmp, notAux>>

\* it++
PostIncrement ==
    /\ CanInc(post.it)
    /\ LET r == PostInc(post.it)
       IN  post' = [op |-> "++", it |-> r.self, before |-> post.it, ret |-> r.ret]
    /\ UNCHANGED <<tmp, notAux>>

\* it--
PostDecrement ==
    /\ CanDec(post.it)
    /\ LET r == PostDec(post.it)
       IN  post' = [op |-> "--", it |-> r.self, before |-> post.it, ret |-> r.ret]
    /\ UNCHANGED <<tmp, notAux>>

NextPost == PostAdvance \/ PostRetreat \/ PostIncrement \/ PostDecrement

SpecPost == InitPost /\ [][NextPost]_vars

---------------------------------------------------------------------------
(* SpecReuse: an lvalue range measured by distance() and traversed as       *)
(* accumulate(0) traverses it, twice over.  g keeps the range as it was     *)
(* built and what the first round returned.                                 *)

ReuseRanges ==
    {make_count_range(FuncCtor(Lambda(k)), c) : k \in {"counter", "squares"}, c \in 0 .. MaxN}
    \cup {make_count_range(unary_func_iterator(Lambda("inc"), 1), c) : c \in 0 .. MaxN}
    \cup {make_count_range(value_iterator(p), c) : p \in StartPositions, c \in 0 .. MaxN}
    \cup {RangeMap(make_value_range(UnsignedT, 1, e), Transform("scale", 3)) : e \in 1 .. 4}

InitReuse ==
    /\ IdleCount
    /\ IdleFunc
    /\ IdleMap
    /\ IdlePos
    /\ IdleVal
    /\ IdleAux
    /\ range \in ReuseRanges
    /\ g = [tag |-> "range", of |-> range, rounds |-> 0, dist |-> 0, sum |-> 0,
            seen |-> << >>]
    /\ n = 0
    /\ first = count_iterator(value_iterator(0), 0)
    /\ last = count_iterator(value_iterator(0), 0)
    /\ visited = << >>
    /\ acc = 0
    /\ pc = "start"

\* r.distance()
ReuseMeasure ==
    /\ pc = "start"
    /\ n' = RangeDistance(range)
    /\ range' = RangeUse(range).self
    /\ pc' = "ranged"
    /\ UNCHANGED <<g, first, last, visited, acc, notTrav>>

\* r.accumulate(0) enters std::accumulate(_begin, _end, 0)
ReuseBegin ==
    /\ pc = "ranged"
    /\ first' = RangeUse(range).first
    /\ last' = RangeUse(range).last
    /\ range' = RangeUse(range).self
    /\ acc' = 0
    /\ pc' = "loop"
    /\ UNCHANGED <<g, n, visited, notTrav>>

\* the results of the first round are kept, and the calls are made again
ReuseAgain ==
    /\ pc = "done"
    /\ g.rounds = 0
    /\ g' = [g EXCEPT !.rounds = 1, !.dist = n, !.sum = acc, !.seen = visited]
    /\ n' = 0
    /\ visited' = << >>
    /\ acc' = 0
    /\ pc' = "start"
    /\ UNCHANGED <<range, first, last, notTrav>>

NextReuse == ReuseMeasure \/ ReuseBegin \/ TravStep \/ TravFinish \/ ReuseAgain

SpecReuse == InitReuse /\ [][NextReuse]_vars

\* C24: the member functions of an lvalue range leave its stored begin and
\* end cursors as they were built, also while a cursor obtained from the
\* range is advanced, so distance() and a traversal repeated on the range
\* return what they returned the first time; this holds for ranges over
\* function-cell cursors and mapping cursors whose callable carries state.
RangeReusable ==
    /\ range = g.of
    /\ (g.rounds = 1 /\ pc # "start") => n = g.dist
    /\ (g.rounds = 1 /\ pc = "done") => acc = g.sum /\ visited = g.seen

\* make_count_range(make_func_iterator([n = 0]() mutable { return ++n; }), 3)
\* traversed a second time: 1, 2, 3 again
RangeReusableWitness ==
    /\ g.rounds = 1
    /\ pc = "done"
    /\ range._begin.iter.tag = "func"
    /\ range._begin.iter.func.func.kind = "counter"
    /\ n = 3
    /\ g.seen = <<1, 2, 3>>
    /\ visited = <<1, 2, 3>>
    /\ first.iter.value = 4
    /\ range._begin.iter.value = 1

---------------------------------------------------------------------------
(* SpecTemp: a cursor over zero_int is made as a temporary or as a named    *)
(* object and dereferenced; the temporary is destroyed at the end of the    *)
(* full expression, and the result is read afterwards (README.md, L_1 ..    *)
(* L_6).  ~zero_int() writes 0 to the element.                              *)

TempVariants == {"value", "func", "unary", "count", "map"}

\* the elements of L_1 .. L_6
TempElems == {12345, 54321, 13579, 65329, 273747, 14231}

InitTemp ==
    /\ IdleCount /\ IdleTrav /\ IdleFunc /\ IdleMap /\ IdlePos /\ IdleVal
    /\ post = NoPost
    /\ tmp = NoTmp

\* the cursor expression is evaluated: a prvalue, or the name of an object
TempMake(variant, cat, elem) ==
    /\ tmp.phase = "none"
    /\ tmp' = [phase |-> "alive", variant |-> variant, cat |-> cat, elem |-> elem,
               cell |-> elem]
    /\ UNCHANGED <<post, notAux>>

\* operator* on it
TempDeref ==
    /\ tmp.phase = "alive"
    /\ tmp' = [phase |-> "taken", variant |-> tmp.variant, cat |-> tmp.cat,
               elem |-> tmp.elem, cell |-> tmp.cell,
               res |-> Star(tmp.variant, Overload(tmp.cat), tmp.cell)]
    /\ UNCHANGED <<post, notAux>>

\* the end of the full expression destroys the temporary: its element is
\* zeroed, and the storage may then hold anything
TempDestroy ==
    /\ tmp.phase = "taken"
    /\ tmp.cat = "rvalue"
    /\ \E left \in {0, Indeterminate} :
          tmp' = [tmp EXCEPT !.phase = "gone", !.cell = left]
    /\ UNCHANGED <<post, notAux>>

\* the result is read: a value of its own, or the storage it refers to
TempRead ==
    /\ \/ tmp.phase = "gone"
       \/ tmp.phase = "taken" /\ tmp.cat = "lvalue"
    /\ tmp' = [phase |-> "read", variant |-> tmp.variant, cat |-> tmp.cat,
               elem |-> tmp.elem, cell |-> tmp.cell, res |-> tmp.res,
               dangling |-> (tmp.res.kind = "ref" /\ tmp.phase = "gone"),
               read |-> IF tmp.res.kind = "value" THEN tmp.res.val ELSE tmp.cell]
    /\ UNCHANGED <<post, notAux>>

NextTemp ==
    \/ \E variant \in TempVariants, cat \in {"rvalue", "lvalue"}, elem \in TempElems :
          TempMake(variant, cat, elem)
    \/ TempDeref
    \/ TempDestroy
    \/ TempRead

SpecTemp == InitTemp /\ [][NextTemp]_vars

\* C23: dereferencing a temporary cursor of any variant (value, pull-function,
\* mutate-function, counting over a value cursor, mapping with a transform
\* that returns by value) returns a value of its own: no reference into the
\* temporary's storage is returned, and the result read after the temporary
\* has been destroyed is the element.
TempDerefIndependent ==
    (tmp.phase \in {"taken", "gone", "read"} /\ tmp.cat = "rvalue") =>
        /\ tmp.res = [kind |-> "value", val |-> tmp.elem]
        /\ tmp.phase = "read" => ~tmp.dangling /\ tmp.read = tmp.elem

\* L_5 = *make_count_iterator(value_iterator<zero_int>(zero_int{ 273747 })),
\* read after the temporary's element was zeroed
TempDerefWitness ==
    /\ tmp.phase = "read"
    /\ tmp.variant = "count"
    /\ tmp.cat = "rvalue"
    /\ tmp.cell = 0
    /\ tmp.read = 273747

============================================================================
